---------------------------- MODULE Spec2Model ----------------------------
(***************************************************************************)
(* Signal-to-order pipeline of AISignalPro:                                *)
(*   - AdvancedSignalParser   (admin-panel/core/parser)                    *)
(*   - MultiUserMT5Dispatcher (admin-panel/core/mt5_bridge)                *)
(*   - SmartRetryExecutor     (desktop-app/retry_engine.py)                *)
(* Each component has its own specification over the shared variables:     *)
(* SpecParser, SpecDispatch, SpecExec.                                     *)
(*                                                                         *)
(* Conventions.  Prices are integers in units of 0.0001.  Confidence is in *)
(* hundredths (0.85 -> 85); the float sums of _calculate_confidence order  *)
(* against 0.85 exactly as the hundredths do (checked for all 64 cases).   *)
(* Python's None is the string "None" where a string is expected and the   *)
(* number NoneNum where a number is expected.                              *)
(***************************************************************************)
EXTENDS Integers, Sequences, FiniteSets, TLC

VARIABLES
  \* ---- AdvancedSignalParser ----
  processed_hashes,   \* self.processed_hashes
  hour,               \* wall clock of the parser, in whole hours
  parse_calls,        \* number of parse_signal calls made so far
  returned,           \* history: <<raw, channel, hour>> of every intent returned
  last_parse,         \* history: the last parse_signal call and what it returned
  pending,            \* the parse_signal coroutines created and not yet run by the loop
  parse_log,          \* history: what each coroutine run by the loop returned
  last_confidence,    \* history: the last _calculate_confidence call and its result
  \* ---- SignalQueue, TelegramSignalListener ----
  signal_queue,       \* SignalQueue.queue: the items put and not yet taken
  processing,         \* SignalQueue.processing
  monitor,            \* start_monitoring and its process_queue task: where they are
  added,              \* history: how many signals add_signal has put
  taken,              \* history: how many signals process_queue has taken
  \* ---- MultiUserMT5Dispatcher ----
  user_configs,       \* self.user_configs
  signals,            \* the signal dicts the callers hold and pass to dispatch_signal
  signal_files,       \* user_<id>.json on disk, per user
  trade_executions,   \* trade_executions.jsonl, one record per line
  shadow_trades,      \* shadow_trades_<id>.jsonl, per user
  pending_confirmations, \* pending_confirmations_<id>.jsonl, per user
  tasks,              \* the dispatch_signal coroutines in flight
  date,               \* the local calendar date
  dispatch_calls,     \* number of dispatch_signal calls made so far
  last_write,         \* history: the last write attempt of an order file
  last_dispatch,      \* history: the last dispatch_signal call that returned
  \* ---- SmartRetryExecutor ----
  config,             \* self.config
  requests,           \* the TradeRequest objects handed to add_trade, by order number
  trade_queue,        \* self.trade_queue
  worker,             \* the processing thread: where it is in _process_queue
  retry_attempts,     \* self.retry_attempts
  failed_trades,      \* self.failed_trades
  mt5_connected,      \* self.mt5_connected
  last_connection_check, \* self.last_connection_check
  now,                \* wall clock, seconds
  venue,              \* history: per order, what the venue was sent and what it did
  last_step,          \* history: the last pass of the loop of _process_trade_with_retry
  last_wait,          \* history: the last backoff sleep that ended
  is_running,         \* self.is_running
  shutdown,           \* the shutdown() call: where it is
  last_call,          \* history: which of start_processing, stop_processing ran last
  \* ---- StrategyEngine ----
  intents,            \* the parsed_signal dicts the caller holds and passes in
  objects,            \* the SignalPayload objects created so far, by identity
  current_payload,    \* self.current_payload: an identity, 0 for None
  execution_history,  \* self.execution_history
  strategy_rules,     \* self.strategy_rules and self.rule_connections: the graph loaded
  results,            \* history: what each execute_strategy call gave its caller
  evals,              \* the execute_strategy calls under way, per calling thread
  \* ---- IntegratedTradingSystem ----
  active_strategies,  \* self.active_strategies: the graphs loaded, in order
  last_signal,        \* history: the last process_telegram_signal call
  \* ---- ProviderScoring ----
  performance_data,   \* self.performance_data
  last_score          \* history: the last calculate_provider_score call and its result

parserVars ==
  <<processed_hashes, hour, parse_calls, returned, last_parse, pending, parse_log,
    last_confidence, signal_queue, processing, monitor, added, taken>>

monitorVars == <<signal_queue, processing, monitor, added, taken>>

dispatchVars ==
  <<user_configs, signals, signal_files, trade_executions, shadow_trades,
    pending_confirmations, tasks, date, dispatch_calls, last_write, last_dispatch>>

execVars ==
  <<config, requests, trade_queue, worker, retry_attempts, failed_trades, mt5_connected,
    last_connection_check, now, venue, last_step, last_wait, is_running, shutdown,
    last_call>>

shutdownVars == <<is_running, shutdown, last_call>>

integrationVars == <<active_strategies, last_signal>>

strategyVars ==
  <<intents, objects, current_payload, execution_history, strategy_rules, results, evals,
    integrationVars>>

scoringVars == <<performance_data, last_score>>

vars == <<parserVars, dispatchVars, execVars, strategyVars, scoringVars>>

NoneNum == -1

Min(S) == CHOOSE x \in S : \A y \in S : x <= y
Max(S) == CHOOSE x \in S : \A y \in S : x >= y

(***************************************************************************)
(*                         AdvancedSignalParser                            *)
(***************************************************************************)

\* Bounds of the parser model.
MaxParseCalls == 3
MaxHour == 1

\* A raw text is given with its tokens.  A token is a word (u: the word in
\* upper case; every pattern of the parser is case-insensitive) or a number
\* (n: its value, dec: written with 2..5 decimals).
W(u) == [k |-> "w", u |-> u, n |-> 0, dec |-> FALSE]
N(n) == [k |-> "n", u |-> "", n |-> n, dec |-> FALSE]
D(n) == [k |-> "n", u |-> "", n |-> n, dec |-> TRUE]

\* raw: the string as received; words: len(raw.split()); isNone: raw_text is None.
TextSamples ==
  { [raw |-> "GOLD BUY @1985, SL 1975, TP 1995 2005", words |-> 8, isNone |-> FALSE,
     toks |-> <<W("GOLD"), W("BUY"), W("@"), N(19850000), W(","), W("SL"), N(19750000),
                W(","), W("TP"), N(19950000), N(20050000)>>],
    [raw |-> "EURUSD BUY 1.0850 SL:1.0800", words |-> 4, isNone |-> FALSE,
     toks |-> <<W("EURUSD"), W("BUY"), D(10850), W("SL"), W(":"), D(10800)>>],
    [raw |-> "Close 50% GBPUSD position", words |-> 4, isNone |-> FALSE,
     toks |-> <<W("CLOSE"), N(500000), W("%"), W("GBPUSD"), W("POSITION")>>],
    [raw |-> "BUY @ 1.0850 SL 1.0800 TP 1.0900 NOW", words |-> 8, isNone |-> FALSE,
     toks |-> <<W("BUY"), W("@"), D(10850), W("SL"), D(10800), W("TP"), D(10900), W("NOW")>>],
    [raw |-> "SELL EURUSD @1.0850 SL 1.0900 TARGET 1.0800 1.0750 1.0800", words |-> 9,
     isNone |-> FALSE,
     toks |-> <<W("SELL"), W("EURUSD"), W("@"), D(10850), W("SL"), D(10900), W("TARGET"),
                D(10800), D(10750), D(10800)>>],
    [raw |-> "None", words |-> 0, isNone |-> TRUE, toks |-> <<>>] }

\* channel_id: Optional[int]
ChannelIds == {NoneNum, 7}

\* str(channel_id) inside the f-string
ChannelStr(ch) == IF ch = NoneNum THEN "None" ELSE ToString(ch)

\* datetime.now().strftime('%Y%m%d%H'): one string per hour, here the hours
\* of 2026-11-01.
HourStr(h) == ToString(2026110100 + h)

\* hashlib.md5(...).hexdigest() of the content string; distinct contents are
\* taken to have distinct digests, so the digest is represented by the content.
_create_signal_hash(raw, ch, h) == raw \o "_" \o ChannelStr(ch) \o "_" \o HourStr(h)

trading_pairs ==
  << "EURUSD", "GBPUSD", "USDJPY", "USDCHF", "AUDUSD", "USDCAD", "NZDUSD",
     "EURJPY", "GBPJPY", "EURGBP", "AUDJPY", "EURAUD", "XAUUSD", "XAGUSD",
     "GOLD", "SILVER", "BTC", "ETH", "OIL", "US30", "NAS100", "SPX500" >>

pair_variations ==
  << <<"GOLD", "XAUUSD">>, <<"SILVER", "XAGUSD">>, <<"EUR/USD", "EURUSD">>,
     <<"GBP/USD", "GBPUSD">>, <<"USD/JPY", "USDJPY">>, <<"AU", "AUDUSD">>,
     <<"EU", "EURUSD">>, <<"GU", "GBPUSD">>, <<"UJ", "USDJPY">> >>

\* `pat in word` for the words of the samples: equality, or a proper substring.
SubstringFacts ==
  { <<"EURUSD", "EU">>, <<"XAUUSD", "AU">>, <<"AUDUSD", "AU">>, <<"EUR/USD", "EU">> }

Contains(u, pat) == u = pat \/ <<u, pat>> \in SubstringFacts

InText(toks, pat) == \E i \in 1..Len(toks) : toks[i].k = "w" /\ Contains(toks[i].u, pat)

\* .replace('/', '').replace('-', '') of a word matched by [A-Z]{3}[/-]?[A-Z]{3}
StripSep(u) ==
  CASE u = "EUR/USD" -> "EURUSD"
    [] u = "GBP-USD" -> "GBPUSD"
    [] OTHER -> u

InSeq(s, x) == \E i \in 1..Len(s) : s[i] = x

_extract_trading_pair(toks) ==
  LET direct == {i \in 1..Len(trading_pairs) : InText(toks, trading_pairs[i])}
      varied == {i \in 1..Len(pair_variations) : InText(toks, pair_variations[i][1])}
      generic == {i \in 1..Len(toks) :
                    toks[i].k = "w" /\ InSeq(trading_pairs, StripSep(toks[i].u))}
  IN  IF direct # {} THEN trading_pairs[Min(direct)]
      ELSE IF varied # {} THEN pair_variations[Min(varied)][2]
      ELSE IF generic # {} THEN StripSep(toks[Min(generic)].u)
      ELSE "None"

HasWord(toks, S) == \E i \in 1..Len(toks) : toks[i].k = "w" /\ toks[i].u \in S

_extract_action(toks) ==
  IF HasWord(toks, {"BUY", "LONG", "BULL", "CALL"}) THEN "buy"
  ELSE IF HasWord(toks, {"SELL", "SHORT", "BEAR", "PUT"}) THEN "sell"
  ELSE IF HasWord(toks, {"CLOSE", "EXIT"}) THEN "close"
  ELSE IF HasWord(toks, {"PARTIAL"}) THEN "partial"
  ELSE IF HasWord(toks, {"BREAKEVEN", "BE"}) THEN "breakeven"
  ELSE IF HasWord(toks, {"ABOVE", "BREAK", "RESISTANCE"}) THEN "buy"
  ELSE IF HasWord(toks, {"BELOW", "SUPPORT", "DROP"}) THEN "sell"
  ELSE "None"

IsNum(toks, i) == i >= 1 /\ i <= Len(toks) /\ toks[i].k = "n"
IsWord(toks, i, S) == i >= 1 /\ i <= Len(toks) /\ toks[i].k = "w" /\ toks[i].u \in S

\* keyword, then optionally one word of `opt`, then a number: the positions
\* of the numbers so matched.
KeyNum(toks, keys, opt) ==
  {i \in 1..Len(toks) :
     IsNum(toks, i) /\ (\/ IsWord(toks, i - 1, keys)
                        \/ IsWord(toks, i - 1, opt) /\ IsWord(toks, i - 2, keys))}

FirstOf(toks, S) == IF S = {} THEN NoneNum ELSE toks[Min(S)].n

\* The patterns are tried in order; the first pattern with a match gives
\* float(matches[0]).
_extract_entry_price(toks) ==
  LET p1 == KeyNum(toks, {"ENTRY", "ENTER", "@", "AT"}, {":"})
      p2 == KeyNum(toks, {"BUY", "SELL", "LONG", "SHORT"}, {"AT"})
      p3 == {i \in 1..Len(toks) : IsNum(toks, i) /\ toks[i].dec}
  IN  IF p1 # {} THEN FirstOf(toks, p1)
      ELSE IF p2 # {} THEN FirstOf(toks, p2)
      ELSE FirstOf(toks, p3)

\* (?:sl|stop|stop\s+loss)\s*:?\s*NUM, then (?:stop|sl)\s+(?:at\s+)?NUM, then
\* (?:loss|stop)\s*:\s*NUM
_extract_stop_loss(toks) ==
  LET p1 == KeyNum(toks, {"SL", "STOP"}, {":"}) \cup
            {i \in 1..Len(toks) :
               IsNum(toks, i) /\ (\/ IsWord(toks, i - 1, {"LOSS"}) /\ IsWord(toks, i - 2, {"STOP"})
                                  \/ /\ IsWord(toks, i - 1, {":"})
                                     /\ IsWord(toks, i - 2, {"LOSS"})
                                     /\ IsWord(toks, i - 3, {"STOP"}))}
      p2 == KeyNum(toks, {"SL", "STOP"}, {"AT"})
      p3 == {i \in 1..Len(toks) :
               IsNum(toks, i) /\ IsWord(toks, i - 1, {":"}) /\ IsWord(toks, i - 2, {"LOSS", "STOP"})}
  IN  IF p1 # {} THEN FirstOf(toks, p1)
      ELSE IF p2 # {} THEN FirstOf(toks, p2)
      ELSE FirstOf(toks, p3)

\* The numbers of a run `num ([, ]num)*` starting at position i, in the
\* order of the text.
RECURSIVE NumRun(_, _)
NumRun(toks, i) ==
  IF ~IsNum(toks, i) THEN <<>>
  ELSE <<toks[i].n>> \o
       (IF IsNum(toks, i + 1) THEN NumRun(toks, i + 1)
        ELSE IF IsWord(toks, i + 1, {","}) /\ IsNum(toks, i + 2) THEN NumRun(toks, i + 2)
        ELSE <<>>)

\* The runs starting at the positions of S, one after the other in the order
\* of the text (re.findall returns the matches from left to right).
RECURSIVE RunsFrom(_, _)
RunsFrom(toks, S) ==
  IF S = {} THEN <<>> ELSE NumRun(toks, Min(S)) \o RunsFrom(toks, S \ {Min(S)})

\* The numbers at the positions of S, from left to right.
RECURSIVE NumsAt(_, _)
NumsAt(toks, S) ==
  IF S = {} THEN <<>> ELSE <<toks[Min(S)].n>> \o NumsAt(toks, S \ {Min(S)})

\* Every value the three patterns match, pattern by pattern, with the order
\* and the multiplicity of the text:
\*   1. (?:tp|target|take\s+profit)\s*[:\s]*NUM(?:\s*[,\s]\s*NUM)*
\*   2. (?:target|tp)\s*[1-9]\s*:?\s*NUM
\*   3. (?:profit|target)\s*(?:at\s+)?NUM
TakeProfitMatches(toks) ==
  LET key1(i) == \/ IsWord(toks, i, {"TP", "TARGET"})
                 \/ IsWord(toks, i, {"PROFIT"}) /\ IsWord(toks, i - 1, {"TAKE"})
      starts == {i \in 1..Len(toks) :
                   IsNum(toks, i) /\ (key1(i - 1) \/ (IsWord(toks, i - 1, {":"}) /\ key1(i - 2)))}
      digit(i) == IsNum(toks, i) /\ ~toks[i].dec /\ toks[i].n \in {d * 10000 : d \in 1..9}
      p2 == {j \in 1..Len(toks) :
               /\ IsNum(toks, j)
               /\ \/ digit(j - 1) /\ IsWord(toks, j - 2, {"TP", "TARGET"})
                  \/ IsWord(toks, j - 1, {":"}) /\ digit(j - 2)
                       /\ IsWord(toks, j - 3, {"TP", "TARGET"})}
      p3 == KeyNum(toks, {"PROFIT", "TARGET"}, {"AT"})
  IN  RunsFrom(toks, starts) \o NumsAt(toks, p2) \o NumsAt(toks, p3)

\* tp_list.append(tp) whatever tp_list holds.
AppendAlways(tp_list, tp) == Append(tp_list, tp)

\* if tp not in tp_list: tp_list.append(tp)
AppendUnique(tp_list, tp) == IF InSeq(tp_list, tp) THEN tp_list ELSE Append(tp_list, tp)

RECURSIVE CollectTakeProfits(_, _)
CollectTakeProfits(tp_list, matched) ==
  IF matched = <<>> THEN tp_list
  ELSE CollectTakeProfits(AppendUnique(tp_list, Head(matched)), Tail(matched))

\* sorted(list): x put after the elements that are not greater.
RECURSIVE InsertSorted(_, _)
InsertSorted(list, x) ==
  IF list = <<>> THEN <<x>>
  ELSE IF x < Head(list) THEN <<x>> \o list
  ELSE <<Head(list)>> \o InsertSorted(Tail(list), x)

RECURSIVE sorted(_)
sorted(list) ==
  IF list = <<>> THEN <<>> ELSE InsertSorted(sorted(SubSeq(list, 1, Len(list) - 1)), list[Len(list)])

\* All three patterns are applied and every match is collected; a value
\* already in tp_list is not added again; the result is sorted(tp_list).
_extract_take_profits(toks) == sorted(CollectTakeProfits(<<>>, TakeProfitMatches(toks)))

\* `if x:` taken to hold for every x.
TruthyAlways(x) == TRUE

\* `if x:` on an Optional[float]: None and 0.0 are both false.
Truthy(x) == x # NoneNum /\ x # 0

\* The penalty applied only when both are missing.
MissingCriticalBoth(pair, action) == pair = "None" /\ action = "None"

\* `if not pair or not action`.
MissingCritical(pair, action) == pair = "None" \/ action = "None"

_calculate_confidence(pair, action, entry, sl, tp_list, words) ==
  LET score == (IF pair # "None" THEN 30 ELSE 0)
             + (IF action # "None" THEN 20 ELSE 0)
             + (IF Truthy(entry) THEN 20 ELSE 0)
             + (IF Truthy(sl) THEN 15 ELSE 0)
             + (IF tp_list # <<>> THEN 10 ELSE 0)
             + (IF words >= 5 THEN 5 ELSE 0)
      \* score *= 0.5, kept in hundredths: the halved score is below every
      \* threshold the parser compares it with whichever way it is rounded
      penalised == IF MissingCritical(pair, action) THEN score \div 2 ELSE score
  IN  IF penalised > 100 THEN 100 ELSE penalised


\* The components _calculate_confidence is called with: a symbol or None, a
\* side or None, an entry and a stop (None, 0.0 or a price), a list of
\* targets, and the number of words of the text.
PairChoices == {"None", "EURUSD"}
ActionChoices == {"None", "buy"}
PriceChoices == {NoneNum, 0, 10850}
TargetChoices == {<<>>, <<10900>>, <<10900, 10950>>}
WordChoices == {0, 4, 5, 9}

NoConfidence ==
  [made |-> FALSE, pair |-> "None", action |-> "None", entry |-> NoneNum, sl |-> NoneNum,
   tp |-> <<>>, words |-> 0, confidence |-> 0, delivered |-> FALSE]

\* The floor of parse_signal: `if confidence < 0.85`.
ConfidenceFloor == 85

BelowFloorLax(confidence) == confidence < 50

BelowFloor(confidence) == confidence < ConfidenceFloor

IsDuplicate(hashes, h) == h \in hashes

\* Lines 89-95 of parse_signal on given components: the confidence is
\* computed and the text rejected when it is below the floor.
ScoreComponents(pair, action, entry, sl, tp_list, words) ==
  LET confidence == _calculate_confidence(pair, action, entry, sl, tp_list, words)
  IN  /\ last_confidence' =
           [made |-> TRUE, pair |-> pair, action |-> action, entry |-> entry, sl |-> sl,
            tp |-> tp_list, words |-> words, confidence |-> confidence,
            delivered |-> ~BelowFloor(confidence)]
      /\ UNCHANGED <<processed_hashes, hour, parse_calls, returned, last_parse, pending,
                     parse_log, monitorVars, dispatchVars, execVars, strategyVars,
                     scoringVars>>

ConfidenceNext ==
  \E pair \in PairChoices, action \in ActionChoices, entry \in PriceChoices,
     sl \in PriceChoices, tp_list \in TargetChoices, words \in WordChoices :
    ScoreComponents(pair, action, entry, sl, tp_list, words)

MarkProcessedForgets(hashes, h) == hashes

\* self.processed_hashes.add(signal_hash)
MarkProcessed(hashes, h) == hashes \cup {h}

NoIntent ==
  [ok |-> FALSE, pair |-> "None", action |-> "None", entry |-> NoneNum, sl |-> NoneNum,
   tp |-> <<>>, confidence |-> 0, signal_hash |-> ""]

\* What _calculate_confidence gives for a text (raw_text not None).
TextConfidence(s) ==
  _calculate_confidence(_extract_trading_pair(s.toks), _extract_action(s.toks),
                        _extract_entry_price(s.toks), _extract_stop_loss(s.toks),
                        _extract_take_profits(s.toks), s.words)

\* parse_signal: the value returned (ok = FALSE stands for None) and the new
\* dedup index.  raw_text = None raises in _extract_trading_pair (None has no
\* .upper()), which the handler turns into None.
\* The components parse_signal extracts from each text, and its confidence.
Extracted ==
  [s \in TextSamples |->
     [pair |-> _extract_trading_pair(s.toks),
      action |-> _extract_action(s.toks),
      entry |-> _extract_entry_price(s.toks),
      sl |-> _extract_stop_loss(s.toks),
      tp |-> _extract_take_profits(s.toks),
      confidence |-> IF s.isNone THEN 0 ELSE TextConfidence(s)]]

parse_signal(s, ch, h, hashes) ==
  LET signal_hash == _create_signal_hash(s.raw, ch, h)
  IN  IF IsDuplicate(hashes, signal_hash) THEN [ret |-> NoIntent, hashes |-> hashes]
      ELSE IF s.isNone THEN [ret |-> NoIntent, hashes |-> hashes]
      ELSE IF BelowFloor(Extracted[s].confidence) THEN [ret |-> NoIntent, hashes |-> hashes]
      ELSE [ret |-> [ok |-> TRUE,
                     pair |-> Extracted[s].pair,
                     action |-> Extracted[s].action,
                     entry |-> Extracted[s].entry,
                     sl |-> Extracted[s].sl,
                     tp |-> Extracted[s].tp,
                     confidence |-> Extracted[s].confidence,
                     signal_hash |-> signal_hash],
            hashes |-> MarkProcessed(hashes, signal_hash)]

NoCall ==
  [called |-> FALSE, raw |-> "", channel |-> NoneNum, hour |-> 0, ret |-> NoIntent,
   dup |-> FALSE, prior |-> FALSE, conf |-> 0, before |-> {}]

ParserInit ==
  /\ processed_hashes = {}
  /\ hour = 0
  /\ parse_calls = 0
  /\ returned = {}
  /\ last_parse = NoCall
  /\ pending = <<>>
  /\ parse_log = <<>>
  /\ last_confidence = NoConfidence
  /\ signal_queue = <<>>
  /\ processing = FALSE
  /\ monitor = "none"
  /\ added = 0
  /\ taken = 0

\* One call of parse_signal, run to completion (the coroutine never awaits).
ParseSignal ==
  \E s \in TextSamples, ch \in ChannelIds :
    LET r == parse_signal(s, ch, hour, processed_hashes)
        key == <<s.raw, ch, hour>>
    IN  /\ parse_calls < MaxParseCalls
        /\ parse_calls' = parse_calls + 1
        /\ processed_hashes' = r.hashes
        /\ returned' = IF r.ret.ok THEN returned \cup {key} ELSE returned
        /\ last_parse' =
             [called |-> TRUE, raw |-> s.raw, channel |-> ch, hour |-> hour, ret |-> r.ret,
              dup |-> IsDuplicate(processed_hashes, _create_signal_hash(s.raw, ch, hour)),
              prior |-> key \in returned,
              conf |-> Extracted[s].confidence,
              before |-> processed_hashes]
        /\ UNCHANGED <<hour, pending, parse_log, last_confidence, monitorVars, dispatchVars, execVars,
                       strategyVars, scoringVars>>

\* The wall clock passes into the next hour.
HourTick ==
  /\ hour < MaxHour
  /\ hour' = hour + 1
  /\ UNCHANGED <<processed_hashes, parse_calls, returned, last_parse, pending, parse_log,
                 last_confidence, monitorVars, dispatchVars, execVars, strategyVars, scoringVars>>

ParserNext == ParseSignal \/ HourTick

\* The texts the concurrent producers send.
ProducerTexts ==
  {s \in TextSamples : s.raw \in {"GOLD BUY @1985, SL 1975, TP 1995 2005",
                                  "Close 50% GBPUSD position"}}

\* A producer calls parser.parse_signal(...): the coroutine object is created
\* and handed to the event loop (create_task, gather); nothing of its body
\* has run.  seen: the dedup index at that moment.
SubmitParse(s, ch) ==
  /\ parse_calls < MaxParseCalls
  /\ parse_calls' = parse_calls + 1
  /\ pending' = Append(pending, [text |-> s, channel |-> ch, seen |-> processed_hashes])
  /\ UNCHANGED <<processed_hashes, hour, returned, last_parse, parse_log, last_confidence,
                 monitorVars, dispatchVars, execVars, strategyVars, scoringVars>>

\* The dedup index the body tests, were the test made when the coroutine is
\* created.
HashesAtCheckStale(at_submit, at_run) == at_submit

\* The dedup index the body tests: self.processed_hashes as it is when the
\* loop runs the coroutine.
HashesAtCheck(at_submit, at_run) == at_run

RemoveAt(q, i) == SubSeq(q, 1, i - 1) \o SubSeq(q, i + 1, Len(q))

\* The event loop runs one of the coroutines.  The body of parse_signal
\* contains no await, so it runs from the test of the dedup index to the
\* return without any other coroutine in between.
RunParse(i) ==
  /\ i \in DOMAIN pending
  /\ LET call == pending[i]
         s == call.text
         ch == call.channel
         key == <<s.raw, ch, hour>>
         r == parse_signal(s, ch, hour, HashesAtCheck(call.seen, processed_hashes))
     IN  /\ processed_hashes' =
              IF r.ret.ok THEN MarkProcessed(processed_hashes, r.ret.signal_hash)
              ELSE processed_hashes
         /\ returned' = IF r.ret.ok THEN returned \cup {key} ELSE returned
         /\ last_parse' =
              [called |-> TRUE, raw |-> s.raw, channel |-> ch, hour |-> hour, ret |-> r.ret,
               dup |-> IsDuplicate(processed_hashes, _create_signal_hash(s.raw, ch, hour)),
               prior |-> key \in returned,
               conf |-> Extracted[s].confidence,
               before |-> processed_hashes]
         /\ parse_log' = Append(parse_log,
              [key |-> key, ok |-> r.ret.ok,
               in_flight |-> Cardinality({j \in DOMAIN pending :
                                j # i /\ pending[j].text.raw = s.raw
                                      /\ pending[j].channel = ch})])
         /\ pending' = RemoveAt(pending, i)
  /\ UNCHANGED <<hour, parse_calls, last_confidence, monitorVars, dispatchVars, execVars, strategyVars,
                 scoringVars>>

\* How many signals the listener queues.
MaxQueuedSignals == 2

\* start_monitoring: the message task and the process_queue task are created
\* with create_task; neither has run when gather is awaited.
StartMonitoring ==
  /\ monitor = "none"
  /\ monitor' = "created"
  /\ UNCHANGED <<processed_hashes, hour, parse_calls, returned, last_parse, pending,
                 parse_log, last_confidence, signal_queue, processing, added, taken>>

\* _process_message of the message task, ending in add_signal: the item is
\* put on the queue.  The message task exists once start_monitoring has
\* created it; it runs between the awaits of the process_queue task, and
\* process_queue has none while items are at hand (get on a non-empty queue
\* and parse_signal do not suspend).
AddSignal(s, ch) ==
  /\ monitor \in {"created", "returned"}
  /\ added < MaxQueuedSignals
  /\ signal_queue' = Append(signal_queue, [text |-> s, channel |-> ch])
  /\ added' = added + 1
  /\ UNCHANGED <<processed_hashes, hour, parse_calls, returned, last_parse, pending,
                 parse_log, last_confidence, processing, monitor, taken>>

\* The process_queue task runs for the first time: processing is False, it
\* is set to True and the loop is entered.
ProcessQueueBegins ==
  /\ monitor = "created"
  /\ ~processing
  /\ processing' = TRUE
  /\ monitor' = "loop"
  /\ UNCHANGED <<processed_hashes, hour, parse_calls, returned, last_parse, pending,
                 parse_log, last_confidence, signal_queue, added, taken>>

\* self.queue.empty(), the negated loop test of process_queue.
QueueEmpty(q) == q = <<>>

\* One pass of `while not self.queue.empty()`: the item is taken and handed to
\* parse_signal, which catches every exception itself, so the retry branch
\* of the pass is not entered; task_done follows.
ProcessQueuePass ==
  /\ monitor = "loop"
  /\ ~QueueEmpty(signal_queue)
  /\ LET item == Head(signal_queue)
         s == item.text
         ch == item.channel
         key == <<s.raw, ch, hour>>
         r == parse_signal(s, ch, hour, processed_hashes)
     IN  /\ signal_queue' = Tail(signal_queue)
         /\ taken' = taken + 1
         /\ parse_calls' = parse_calls + 1
         /\ processed_hashes' = r.hashes
         /\ returned' = IF r.ret.ok THEN returned \cup {key} ELSE returned
         /\ last_parse' =
              [called |-> TRUE, raw |-> s.raw, channel |-> ch, hour |-> hour, ret |-> r.ret,
               dup |-> IsDuplicate(processed_hashes, _create_signal_hash(s.raw, ch, hour)),
               prior |-> key \in returned,
               conf |-> Extracted[s].confidence,
               before |-> processed_hashes]
  /\ UNCHANGED <<hour, pending, parse_log, last_confidence, processing, monitor, added>>

\* The loop test finds the queue empty: the finally clause sets processing to
\* False and process_queue returns.  Nothing calls it again.
ProcessQueueReturns ==
  /\ monitor = "loop"
  /\ QueueEmpty(signal_queue)
  /\ processing' = FALSE
  /\ monitor' = "returned"
  /\ UNCHANGED <<processed_hashes, hour, parse_calls, returned, last_parse, pending,
                 parse_log, last_confidence, signal_queue, added, taken>>

\* A step of the process_queue task.
ConsumerBegins ==
  ProcessQueueBegins /\ UNCHANGED <<dispatchVars, execVars, strategyVars, scoringVars>>

ConsumerPass ==
  ProcessQueuePass /\ UNCHANGED <<dispatchVars, execVars, strategyVars, scoringVars>>

ConsumerReturns ==
  ProcessQueueReturns /\ UNCHANGED <<dispatchVars, execVars, strategyVars, scoringVars>>

MonitoringNext ==
  \/ StartMonitoring /\ UNCHANGED <<dispatchVars, execVars, strategyVars, scoringVars>>
  \/ (\E s \in TextSamples, ch \in ChannelIds : AddSignal(s, ch))
       /\ UNCHANGED <<dispatchVars, execVars, strategyVars, scoringVars>>
  \/ ConsumerBegins
  \/ ConsumerPass
  \/ ConsumerReturns

ProducersNext ==
  \/ \E s \in ProducerTexts, ch \in ChannelIds : SubmitParse(s, ch)
  \/ \E i \in 1..MaxParseCalls : RunParse(i)
  \/ HourTick


(***************************************************************************)
(*                        MultiUserMT5Dispatcher                           *)
(***************************************************************************)

\* Bounds of the dispatcher model.
MaxDispatchCalls == 2
MaxTasks == 2
MaxDate == 1
\* max_daily_trades of user "1" (10 in _load_user_configs), kept small so
\* that the cap is reached within MaxDispatchCalls calls.
DailyCap == 1

Tasks == 1..MaxTasks

\* self.max_retries of the dispatcher: write attempts per order file.
WriteMaxRetries == 3

\* The signal dicts handed to dispatch_signal (ParsedSignal as a dict; lot is
\* absent until risk management sets it).
SignalIds == {"s1", "s2", "s3"}

InitialSignals ==
  [sid \in SignalIds |->
     CASE sid = "s1" ->
            [signal_id |-> "s1", pair |-> "EURUSD", action |-> "buy", entry |-> 10850,
             sl |-> 10800, tp |-> <<10900, 10950>>, confidence |-> 90,
             order_type |-> "market", lot |-> NoneNum]
       [] sid = "s2" ->
            [signal_id |-> "s2", pair |-> "EURUSD", action |-> "sell", entry |-> 10850,
             sl |-> 10900, tp |-> <<10800>>, confidence |-> 80,
             order_type |-> "market", lot |-> NoneNum]
       [] sid = "s3" ->
            [signal_id |-> "s3", pair |-> "GBPJPY", action |-> "sell", entry |-> 1905000,
             sl |-> 1910000, tp |-> <<1900000>>, confidence |-> 95,
             order_type |-> "pending", lot |-> NoneNum]]

\* Users known to the dispatcher, and one that has no configuration.
Users == {"1", "2"}
UnknownUser == "9"

\* _load_user_configs's record for user "1" (max_daily_trades: 10 in the
\* source, here DailyCap).  risk_percent is in tenths of a percent,
\* max_lot in thousandths of a lot, the adjustments in pips.
DefaultConfig(cap) ==
  [user_id |-> "1", execution_mode |-> "auto", min_confidence |-> 85, max_lot |-> 1000,
   risk_percent |-> 20, max_daily_trades |-> cap,
   allowed_pairs |-> {"EURUSD", "GBPUSD", "XAUUSD"},
   sl_adjustment |-> 0, tp_adjustment |-> 0, auto_breakeven |-> TRUE]

\* Configurations given to user "2" through update_user_config.
OtherConfigs ==
  { [user_id |-> "2", execution_mode |-> "shadow", min_confidence |-> 85, max_lot |-> 1000,
     risk_percent |-> 20, max_daily_trades |-> 1, allowed_pairs |-> {},
     sl_adjustment |-> 0, tp_adjustment |-> 0, auto_breakeven |-> TRUE],
    [user_id |-> "2", execution_mode |-> "semi-auto", min_confidence |-> 85, max_lot |-> 1000,
     risk_percent |-> 20, max_daily_trades |-> 1, allowed_pairs |-> {},
     sl_adjustment |-> 0, tp_adjustment |-> 0, auto_breakeven |-> TRUE],
    [user_id |-> "2", execution_mode |-> "auto", min_confidence |-> 75, max_lot |-> 50,
     risk_percent |-> 40, max_daily_trades |-> 1, allowed_pairs |-> {},
     sl_adjustment |-> 5, tp_adjustment |-> 10, auto_breakeven |-> FALSE] }

\* random.randint(500, 3000): the value drawn.
DelayChoices == {500}

\* Strings as numbers, for the digest.
StringTable ==
  << "None", "buy", "sell", "close", "EURUSD", "GBPUSD", "XAUUSD", "GBPJPY", "market",
     "pending", "AI Signal", "s1", "s2", "s3", "1", "2", "" >>

StrCode(x) == CHOOSE i \in 1..Len(StringTable) : StringTable[i] = x

\* The digest space: hexdigest()[:8] keeps 32 bits of the MD5; the model keeps
\* a digest below a 16-bit prime so that the arithmetic stays in TLC's range.
ChecksumSpace == 65521

Mix(h, x) == (h * 31 + x + 1) % ChecksumSpace

RECURSIVE MixSeq(_, _)
MixSeq(h, q) == IF q = <<>> THEN h ELSE MixSeq(Mix(h, Head(q)), Tail(q))

\* The same digest with the stored checksum mixed in.
_calculate_checksum_reads_stored(d) ==
  MixSeq(MixSeq(7, << StrCode(d.action), d.checksum, StrCode(d.comment), d.delay_ms,
                      d.entry, d.lot, IF d.move_sl_to_be THEN 1 ELSE 0,
                      StrCode(d.order_type), d.partial_close, StrCode(d.signal_id), d.sl,
                      StrCode(d.symbol), d.timestamp >>),
         d.tp \o <<StrCode(d.user_id)>>)

\* _calculate_checksum: an 8-hex-digit (32-bit) digest of the JSON of every
\* field but 'checksum', keys sorted.  The digest is a polynomial hash of the
\* field values in key order; the value of the checksum field is not read.
_calculate_checksum(d) ==
  MixSeq(MixSeq(7, << StrCode(d.action), StrCode(d.comment), d.delay_ms, d.entry, d.lot,
                      IF d.move_sl_to_be THEN 1 ELSE 0, StrCode(d.order_type),
                      d.partial_close, StrCode(d.signal_id), d.sl, StrCode(d.symbol),
                      d.timestamp >>),
         d.tp \o <<StrCode(d.user_id)>>)

\* _calculate_position_size: min(0.1 * (risk_percent / 2.0), max_lot)
_calculate_position_size(cfg) ==
  LET calculated_lot == (100 * cfg.risk_percent) \div 20
  IN  IF calculated_lot < cfg.max_lot THEN calculated_lot ELSE cfg.max_lot

\* _get_daily_trade_count: the lines of the log for this user, dated today,
\* with status 'dispatched'.
_get_daily_trade_count(log, user_id, today) ==
  Cardinality({i \in 1..Len(log) :
                 /\ log[i].user_id = user_id
                 /\ log[i].timestamp = today
                 /\ log[i].status = "dispatched"})

\* The same without the allow-list check.
RiskRejectionNoAllowList(sig, cfg, log, today) ==
  IF sig.confidence < cfg.min_confidence THEN "confidence"
  ELSE IF _get_daily_trade_count(log, cfg.user_id, today) >= cfg.max_daily_trades THEN "daily_limit"
  ELSE "None"

\* _apply_risk_management's three checks in the order of the source: the
\* warning logged by the first that fails, "None" when the signal passes.
RiskRejection(sig, cfg, log, today) ==
  IF sig.confidence < cfg.min_confidence THEN "confidence"
  ELSE IF cfg.allowed_pairs # {} /\ sig.pair \notin cfg.allowed_pairs THEN "pair"
  ELSE IF _get_daily_trade_count(log, cfg.user_id, today) >= cfg.max_daily_trades THEN "daily_limit"
  ELSE "None"

\* _apply_risk_management on a signal that passes: signal_data['lot'] is set
\* in the caller's dict.
_apply_risk_management(sig, cfg) == [sig EXCEPT !.lot = _calculate_position_size(cfg)]

\* _apply_user_adjustments: sl and tp of the caller's dict are shifted in place.
_apply_user_adjustments(sig, cfg) ==
  LET sl2 == IF cfg.sl_adjustment # 0 /\ Truthy(sig.sl)
             THEN (IF sig.action = "buy" THEN sig.sl - cfg.sl_adjustment
                                          ELSE sig.sl + cfg.sl_adjustment)
             ELSE sig.sl
      tp2 == IF cfg.tp_adjustment # 0 /\ sig.tp # <<>>
             THEN [i \in 1..Len(sig.tp) |->
                     IF sig.action = "buy" THEN sig.tp[i] + cfg.tp_adjustment
                                           ELSE sig.tp[i] - cfg.tp_adjustment]
             ELSE sig.tp
  IN  [sig EXCEPT !.sl = sl2, !.tp = tp2]

\* enhanced_signal of _execute_auto_trade, checksum included.
EnhancedSignal(adj, cfg, user_id, delay, today) ==
  LET e == [signal_id |-> adj.signal_id, symbol |-> adj.pair, action |-> adj.action,
            entry |-> adj.entry, sl |-> adj.sl, tp |-> adj.tp, lot |-> adj.lot,
            order_type |-> adj.order_type, delay_ms |-> delay,
            move_sl_to_be |-> cfg.auto_breakeven, partial_close |-> 0,
            comment |-> "AI Signal", timestamp |-> today, user_id |-> user_id,
            checksum |-> 0]
  IN  [e EXCEPT !.checksum = _calculate_checksum(e)]

NoOrder ==
  [signal_id |-> "", symbol |-> "", action |-> "", entry |-> 0, sl |-> 0, tp |-> <<>>,
   lot |-> 0, order_type |-> "", delay_ms |-> 0, move_sl_to_be |-> FALSE,
   partial_close |-> 0, comment |-> "", timestamp |-> 0, user_id |-> "", checksum |-> 0]

\* A file on disk: absent, or present with JSON that parses (data) or not.
NoFile == [present |-> FALSE, readable |-> FALSE, data |-> NoOrder]

\* json.dump(signal_data, f): the document as key/value pairs in the order of
\* the dict, each value a JSON token <<kind, payload>>.  None is written as
\* null, True/False as true/false, a list as an array of numbers.
JsonNumber(x) == IF x = NoneNum THEN <<"null", 0>> ELSE <<"number", x>>

JsonString(x) == IF x = "None" THEN <<"null", "">> ELSE <<"string", x>>

JsonBool(x) == IF x THEN <<"true", 0>> ELSE <<"false", 0>>

JsonDump(d) ==
  << <<"signal_id", JsonString(d.signal_id)>>, <<"symbol", JsonString(d.symbol)>>,
     <<"action", JsonString(d.action)>>, <<"entry", JsonNumber(d.entry)>>,
     <<"sl", JsonNumber(d.sl)>>,
     <<"tp", <<"array", [i \in 1..Len(d.tp) |-> JsonNumber(d.tp[i])]>> >>,
     <<"lot", JsonNumber(d.lot)>>, <<"order_type", JsonString(d.order_type)>>,
     <<"delay_ms", JsonNumber(d.delay_ms)>>, <<"move_sl_to_be", JsonBool(d.move_sl_to_be)>>,
     <<"partial_close", JsonNumber(d.partial_close)>>, <<"comment", JsonString(d.comment)>>,
     <<"timestamp", JsonNumber(d.timestamp)>>, <<"user_id", JsonString(d.user_id)>>,
     <<"checksum", JsonNumber(d.checksum)>> >>

\* json.load: the dict of the document.
JsonField(doc, key) == doc[CHOOSE i \in DOMAIN doc : doc[i][1] = key][2]

LoadNumber(tok) == IF tok[1] = "null" THEN NoneNum ELSE tok[2]

LoadString(tok) == IF tok[1] = "null" THEN "None" ELSE tok[2]

LoadBool(tok) == tok[1] = "true"

JsonLoad(doc) ==
  [ signal_id |-> LoadString(JsonField(doc, "signal_id")),
    symbol |-> LoadString(JsonField(doc, "symbol")),
    action |-> LoadString(JsonField(doc, "action")),
    entry |-> LoadNumber(JsonField(doc, "entry")),
    sl |-> LoadNumber(JsonField(doc, "sl")),
    tp |-> LET a == JsonField(doc, "tp")[2] IN [i \in 1..Len(a) |-> LoadNumber(a[i])],
    lot |-> LoadNumber(JsonField(doc, "lot")),
    order_type |-> LoadString(JsonField(doc, "order_type")),
    delay_ms |-> LoadNumber(JsonField(doc, "delay_ms")),
    move_sl_to_be |-> LoadBool(JsonField(doc, "move_sl_to_be")),
    partial_close |-> LoadNumber(JsonField(doc, "partial_close")),
    comment |-> LoadString(JsonField(doc, "comment")),
    timestamp |-> LoadNumber(JsonField(doc, "timestamp")),
    user_id |-> LoadString(JsonField(doc, "user_id")),
    checksum |-> LoadNumber(JsonField(doc, "checksum")) ]

\* What open(file_path, 'w') + json.dump leave on disk, as the next read sees it:
\*   ok            the order as dumped
\*   bad_field     a field other than checksum differs from the order
\*   garbled       not JSON: json.dump raised half way, or a short write
WriteOutcomes == {"ok", "bad_field", "garbled"}

WrittenFile(order, outcome) ==
  CASE outcome = "ok" ->
         [present |-> TRUE, readable |-> TRUE, data |-> JsonLoad(JsonDump(order))]
    [] outcome = "bad_field" ->
         [present |-> TRUE, readable |-> TRUE,
          data |-> JsonLoad(JsonDump([order EXCEPT !.lot = order.lot + 1]))]
    [] outcome = "garbled" -> [present |-> TRUE, readable |-> FALSE, data |-> NoOrder]

\* _verify_signal_file: json.load, then written_checksum == expected_checksum;
\* any exception (no file, bad JSON) gives False.
_verify_signal_file(file, expected) ==
  file.present /\ file.readable /\ file.data.checksum = expected.checksum

\* One pass of the loop body of _write_signal_file: did this attempt return True.
WriteAttemptOk(order, outcome) == _verify_signal_file(WrittenFile(order, outcome), order)

\* _log_trade_execution's line.
LogEntry(order, user_id, status, today) ==
  [timestamp |-> today, user_id |-> user_id, signal_id |-> order.signal_id,
   symbol |-> order.symbol, action |-> order.action, lot |-> order.lot, status |-> status]

IdleTask == [pc |-> "idle", user |-> "", order |-> NoOrder, attempt |-> 0, count |-> 0]

NoWrite ==
  [made |-> FALSE, accepted |-> FALSE, file |-> NoFile, order |-> NoOrder, task |-> 0,
   attempt |-> 0, result |-> "none", log_before |-> 0, count |-> 0]

NoSignal ==
  [signal_id |-> "", pair |-> "", action |-> "", entry |-> 0, sl |-> 0, tp |-> <<>>,
   confidence |-> 0, order_type |-> "", lot |-> NoneNum]

NoDispatch ==
  [made |-> FALSE, user |-> "", success |-> FALSE, mode |-> "", error |-> "",
   shadow_before |-> 0, signal |-> NoSignal, count_before |-> 0, reason |-> "None",
   wrote |-> FALSE]

DispatchInit ==
  /\ \E c2 \in OtherConfigs :
       user_configs = [u \in Users |-> IF u = "1" THEN DefaultConfig(DailyCap) ELSE c2]
  /\ signals = InitialSignals
  /\ signal_files = [u \in Users |-> NoFile]
  /\ trade_executions = <<>>
  /\ shadow_trades = [u \in Users |-> 0]
  /\ pending_confirmations = [u \in Users |-> 0]
  /\ tasks = [t \in Tasks |-> IdleTask]
  /\ date = 0
  /\ dispatch_calls = 0
  /\ last_write = NoWrite
  /\ last_dispatch = NoDispatch

\* The dispatcher left alone (the other components' specifications).
DispatchQuiet ==
  /\ user_configs = [u \in Users |-> DefaultConfig(DailyCap)]
  /\ signals = InitialSignals
  /\ signal_files = [u \in Users |-> NoFile]
  /\ trade_executions = <<>>
  /\ shadow_trades = [u \in Users |-> 0]
  /\ pending_confirmations = [u \in Users |-> 0]
  /\ tasks = [t \in Tasks |-> IdleTask]
  /\ date = 0
  /\ dispatch_calls = 0
  /\ last_write = NoWrite
  /\ last_dispatch = NoDispatch

\* The free coroutine slot a new call takes (slots are interchangeable).
FreeTask(t) == tasks[t].pc = "idle" /\ \A t2 \in Tasks : tasks[t2].pc = "idle" => t <= t2

Returned(u, ok, mode, err) ==
  [made |-> TRUE, user |-> u, success |-> ok, mode |-> mode, error |-> err,
   shadow_before |-> IF u \in Users THEN shadow_trades[u] ELSE 0,
   signal |-> NoSignal, count_before |-> 0, reason |-> "None", wrote |-> FALSE]

\* user_config.get('execution_mode', 'auto') as dispatch_signal branches on it.
ExecutionModeAlwaysAuto(cfg) == "auto"

ExecutionMode(cfg) == cfg.execution_mode

\* dispatch_signal for a user without configuration.
DispatchUnknownUser(t) ==
  /\ FreeTask(t)
  /\ dispatch_calls < MaxDispatchCalls
  /\ dispatch_calls' = dispatch_calls + 1
  /\ last_dispatch' = Returned(UnknownUser, FALSE, "", "User configuration not found")
  /\ UNCHANGED <<user_configs, signals, signal_files, trade_executions, shadow_trades,
                 pending_confirmations, tasks, date, last_write>>

\* dispatch_signal, execution_mode 'shadow': _log_shadow_trade.
DispatchShadow(t, sid, u) ==
  /\ FreeTask(t)
  /\ dispatch_calls < MaxDispatchCalls
  /\ ExecutionMode(user_configs[u]) = "shadow"
  /\ dispatch_calls' = dispatch_calls + 1
  /\ shadow_trades' = [shadow_trades EXCEPT ![u] = @ + 1]
  /\ last_dispatch' = Returned(u, TRUE, "shadow", "")
  /\ UNCHANGED <<user_configs, signals, signal_files, trade_executions,
                 pending_confirmations, tasks, date, last_write>>

\* dispatch_signal, execution_mode 'semi-auto': _request_confirmation.
DispatchSemiAuto(t, sid, u) ==
  /\ FreeTask(t)
  /\ dispatch_calls < MaxDispatchCalls
  /\ ExecutionMode(user_configs[u]) = "semi-auto"
  /\ dispatch_calls' = dispatch_calls + 1
  /\ pending_confirmations' = [pending_confirmations EXCEPT ![u] = @ + 1]
  /\ last_dispatch' = Returned(u, TRUE, "semi-auto", "")
  /\ UNCHANGED <<user_configs, signals, signal_files, trade_executions,
                 shadow_trades, tasks, date, last_write>>

\* The loop of _write_signal_file: is there another attempt after attempt k
\* (for attempt in range(max_retries); the sleep when attempt < max_retries - 1).
AnotherAttemptOneExtra(k) == k < WriteMaxRetries

AnotherAttempt(k) == k < WriteMaxRetries - 1

\* The end of one write attempt (attempt number k, from 0) of task t: on a
\* verified write _execute_auto_trade logs 'dispatched' and returns success;
\* otherwise the coroutine sleeps 1 s before the next attempt, or, after the
\* last attempt, returns failure.
AfterWrite(t, u, order, k, outcome, count) ==
  LET file == WrittenFile(order, outcome)
      ok == WriteAttemptOk(order, outcome)
  IN  /\ signal_files' = [signal_files EXCEPT ![u] = file]
      /\ last_write' =
           [made |-> TRUE, accepted |-> ok, file |-> file, order |-> order, task |-> t,
            attempt |-> k + 1,
            result |-> IF ok THEN "success"
                       ELSE IF AnotherAttempt(k) THEN "none" ELSE "failure",
            log_before |-> Len(trade_executions), count |-> count]
      /\ IF ok
         THEN /\ trade_executions' =
                   Append(trade_executions, LogEntry(order, u, "dispatched", date))
              /\ tasks' = [tasks EXCEPT ![t] = IdleTask]
              /\ last_dispatch' = Returned(u, TRUE, "auto", "")
         ELSE IF AnotherAttempt(k)
         THEN /\ tasks' = [tasks EXCEPT ![t] =
                             [pc |-> "sleeping", user |-> u, order |-> order,
                              attempt |-> k + 1, count |-> count]]
              /\ UNCHANGED <<trade_executions, last_dispatch>>
         ELSE /\ tasks' = [tasks EXCEPT ![t] = IdleTask]
              /\ last_dispatch' = Returned(u, FALSE, "auto", "Failed to write signal file")
              /\ UNCHANGED trade_executions

\* dispatch_signal, auto mode, rejected by _apply_risk_management.
DispatchAutoRejected(t, sid, u) ==
  /\ FreeTask(t)
  /\ dispatch_calls < MaxDispatchCalls
  /\ ExecutionMode(user_configs[u]) \notin {"shadow", "semi-auto"}
  /\ RiskRejection(signals[sid], user_configs[u], trade_executions, date) # "None"
  /\ dispatch_calls' = dispatch_calls + 1
  /\ UNCHANGED <<user_configs, signals, signal_files, trade_executions, shadow_trades,
                 pending_confirmations, tasks, date, last_write>>
  /\ last_dispatch' =
       [Returned(u, FALSE, "auto", "Signal rejected by risk management") EXCEPT
          !.signal = signals[sid],
          !.count_before = _get_daily_trade_count(trade_executions, u, date),
          !.reason = RiskRejection(signals[sid], user_configs[u], trade_executions, date),
          !.wrote = (signal_files' # signal_files \/ trade_executions' # trade_executions)]

\* dispatch_signal, auto mode, from the call to the first point where the
\* coroutine is suspended (asyncio.sleep in _write_signal_file) or returns:
\* risk management, adjustments, checksum, first write attempt.
DispatchAuto(t, sid, u) ==
  /\ FreeTask(t)
  /\ dispatch_calls < MaxDispatchCalls
  /\ ExecutionMode(user_configs[u]) \notin {"shadow", "semi-auto"}
  /\ RiskRejection(signals[sid], user_configs[u], trade_executions, date) = "None"
  /\ dispatch_calls' = dispatch_calls + 1
  /\ \E delay \in DelayChoices, outcome \in WriteOutcomes :
       LET cfg == user_configs[u]
           adj == _apply_user_adjustments(_apply_risk_management(signals[sid], cfg), cfg)
           order == EnhancedSignal(adj, cfg, u, delay, date)
       IN  /\ signals' = [signals EXCEPT ![sid] = adj]
           /\ AfterWrite(t, u, order, 0, outcome,
                         _get_daily_trade_count(trade_executions, u, date))
  /\ UNCHANGED <<user_configs, shadow_trades, pending_confirmations, date>>

\* A suspended _write_signal_file wakes from asyncio.sleep(1) and makes its
\* next attempt.
WriteRetry(t) ==
  /\ tasks[t].pc = "sleeping"
  /\ \E outcome \in WriteOutcomes :
       AfterWrite(t, tasks[t].user, tasks[t].order, tasks[t].attempt, outcome,
                  tasks[t].count)
  /\ UNCHANGED <<user_configs, signals, shadow_trades, pending_confirmations, date,
                 dispatch_calls>>

\* Midnight passes.
DayTick ==
  /\ date < MaxDate
  /\ date' = date + 1
  /\ UNCHANGED <<user_configs, signals, signal_files, trade_executions, shadow_trades,
                 pending_confirmations, tasks, dispatch_calls, last_write, last_dispatch>>

DispatchNext ==
  \/ \E t \in Tasks : DispatchUnknownUser(t) /\ UNCHANGED <<parserVars, execVars, strategyVars, scoringVars>>
  \/ \E t \in Tasks, sid \in SignalIds, u \in Users : DispatchShadow(t, sid, u) /\ UNCHANGED <<parserVars, execVars, strategyVars, scoringVars>>
  \/ \E t \in Tasks, sid \in SignalIds, u \in Users : DispatchSemiAuto(t, sid, u) /\ UNCHANGED <<parserVars, execVars, strategyVars, scoringVars>>
  \/ \E t \in Tasks, sid \in SignalIds, u \in Users : DispatchAutoRejected(t, sid, u) /\ UNCHANGED <<parserVars, execVars, strategyVars, scoringVars>>
  \/ \E t \in Tasks, sid \in SignalIds, u \in Users : DispatchAuto(t, sid, u) /\ UNCHANGED <<parserVars, execVars, strategyVars, scoringVars>>
  \/ \E t \in Tasks : WriteRetry(t) /\ UNCHANGED <<parserVars, execVars, strategyVars, scoringVars>>
  \/ DayTick /\ UNCHANGED <<parserVars, execVars, strategyVars, scoringVars>>

(***************************************************************************)
(*                          SmartRetryExecutor                             *)
(* Time is in whole seconds.  Spreads are in points; the code divides the  *)
(* live spread and the typical spread by the same pip factor, so the       *)
(* comparison in points is the comparison in pips.  Ratios configured as   *)
(* floats are kept in tenths (multiplier 2.0 -> 20).                       *)
(***************************************************************************)

\* Bound on the length of the retry log, that is on the number of passes of
\* the retry loop that reach validation.
MaxAttempts == 3

\* Bound on the number of orders handed to add_trade.
MaxOrders == 1

StartTime == 1000

\* TradeRequest.max_retries when the caller does not give it.
DefaultMaxRetries == 3

\* symbol_info.spread of the traded symbol, in points.
TypicalSpread == 10

SecondsPerDay == 86400

\* Configurations read by _load_config.  The first keeps the defaults of the
\* code except for a shorter retry budget and a longer base delay, which make
\* the cap of the backoff bite at the second retry; the second switches the
\* exponential backoff and the market-hours check off.
ConfigSamples ==
  { [ max_retries |-> 2, retry_window_seconds |-> 300, base_delay_seconds |-> 10,
      exponential_backoff |-> TRUE, max_delay_seconds |-> 30,
      max_spread_multiplier |-> 20, check_market_hours |-> TRUE,
      min_free_margin_percent |-> 20, reconnection_attempts |-> 3,
      health_check_interval |-> 30 ],
    [ max_retries |-> 2, retry_window_seconds |-> 300, base_delay_seconds |-> 1,
      exponential_backoff |-> FALSE, max_delay_seconds |-> 30,
      max_spread_multiplier |-> 20, check_market_hours |-> FALSE,
      min_free_margin_percent |-> 20, reconnection_attempts |-> 3,
      health_check_interval |-> 30 ] }

\* What the caller of add_trade hands over: the retry budget of the request and
\* how long ago the request was created.
RequestSamples ==
  { [ max_retries |-> DefaultMaxRetries, age |-> 0 ],
    [ max_retries |-> 1, age |-> 295 ] }

\* What the terminal answers during one pass of the retry loop.
\*   account_ok     mt5.account_info() is not None
\*   symbol_ok      _get_symbol_info returns the symbol
\*   trade_disabled symbol_info.trade_mode == SYMBOL_TRADE_MODE_DISABLED
\*   spread         live spread in points, NoneNum when the tick is missing
\*   equity, margin_free   of the account
\*   reconnect_ok   _initialize_mt5 succeeds during _reconnect_mt5
\*   reconnect_at   the attempt of _reconnect_mt5 at which it first succeeds
\*   send           what mt5.order_send returns: "done", or "rejected" for a
\*                  missing result or any other retcode
\*   account_raises mt5.account_info() raises an exception
Calm ==
  [ account_ok |-> TRUE, symbol_ok |-> TRUE, trade_disabled |-> FALSE,
    spread |-> TypicalSpread, equity |-> 1000, margin_free |-> 500,
    reconnect_ok |-> TRUE, reconnect_at |-> 1, send |-> "done", account_raises |-> FALSE ]

EnvSamples ==
  { Calm,
    [Calm EXCEPT !.send = "rejected"],
    [Calm EXCEPT !.account_ok = FALSE, !.reconnect_ok = FALSE],
    [Calm EXCEPT !.account_ok = FALSE],
    [Calm EXCEPT !.account_ok = FALSE, !.reconnect_at = 2],
    [Calm EXCEPT !.symbol_ok = FALSE],
    [Calm EXCEPT !.trade_disabled = TRUE, !.spread = 3 * TypicalSpread],
    [Calm EXCEPT !.spread = 3 * TypicalSpread],
    [Calm EXCEPT !.spread = NoneNum],
    [Calm EXCEPT !.margin_free = 100],
    [Calm EXCEPT !.equity = 0, !.margin_free = 0] }

RECURSIVE Pow2(_)
Pow2(n) == IF n <= 0 THEN 1 ELSE 2 * Pow2(n - 1)

_calculate_retry_delay_uncapped(cfg, attempt_number) ==
  IF cfg.exponential_backoff
    THEN cfg.base_delay_seconds * Pow2(attempt_number)
    ELSE cfg.base_delay_seconds

_calculate_retry_delay(cfg, attempt_number) ==
  IF cfg.exponential_backoff
    THEN Min({cfg.base_delay_seconds * Pow2(attempt_number), cfg.max_delay_seconds})
    ELSE cfg.base_delay_seconds

\* _check_mt5_connection: [connected, checked_at] after the call.  The cached
\* flag is returned while the last check is younger than the interval.
_check_mt5_connection(cfg, env, connected, checked_at, t) ==
  IF ((t - checked_at) % SecondsPerDay) < cfg.health_check_interval
    THEN [connected |-> connected, checked_at |-> checked_at]
    ELSE [connected |-> env.account_ok /\ ~env.account_raises, checked_at |-> t]

\* _reconnect_mt5: [ok, took] -- whether a reconnection attempt succeeded and
\* the seconds slept.  Each attempt sleeps 2, tries, and on failure sleeps
\* 5 * (attempt + 1).
\* time.sleep(5 * (attempt + 1)) after every failed attempt.
ReconnectWaitFlat(attempt) == 5

\* time.sleep(5 * (attempt + 1)) after a failed attempt, attempts counted
\* from 1 here.
ReconnectWait(attempt) == 5 * attempt

RECURSIVE SumSeq(_)
SumSeq(q) == IF q = <<>> THEN 0 ELSE Head(q) + SumSeq(Tail(q))

NoReconnect == [ok |-> FALSE, took |-> 0, attempts |-> 0, waits |-> <<>>]

\* attempts: the passes of the for loop made; waits: the sleep after each
\* failed attempt.
_reconnect_mt5(cfg, env) ==
  LET succeeds == env.reconnect_ok /\ env.reconnect_at <= cfg.reconnection_attempts
      attempts == IF succeeds THEN env.reconnect_at ELSE Max({cfg.reconnection_attempts, 0})
      failed == IF succeeds THEN attempts - 1 ELSE attempts
      waits == [a \in 1..failed |-> ReconnectWait(a)]
  IN  [ok |-> succeeds, took |-> 2 * attempts + SumSeq(waits), attempts |-> attempts,
       waits |-> waits]

\* _check_market_conditions after the connection check: the RetryReason of the
\* first check that fails, "None" when all pass.
_check_market_conditions_hours_last(cfg, env, connected) ==
  IF ~connected THEN "mt5_disconnection"
  ELSE IF ~env.symbol_ok THEN "execution_failure"
  ELSE IF env.spread = NoneNum THEN "execution_failure"
  ELSE IF env.spread * 10 > TypicalSpread * cfg.max_spread_multiplier
    THEN "spread_too_high"
  ELSE IF cfg.check_market_hours /\ env.trade_disabled THEN "market_closed"
  ELSE IF env.account_ok /\ env.equity > 0
          /\ env.margin_free * 100 < cfg.min_free_margin_percent * env.equity
    THEN "insufficient_margin"
  ELSE "None"

_check_market_conditions(cfg, env, connected) ==
  IF ~connected THEN "mt5_disconnection"
  ELSE IF ~env.symbol_ok THEN "execution_failure"
  ELSE IF cfg.check_market_hours /\ env.trade_disabled THEN "market_closed"
  ELSE IF env.spread = NoneNum THEN "execution_failure"
  ELSE IF env.spread * 10 > TypicalSpread * cfg.max_spread_multiplier
    THEN "spread_too_high"
  ELSE IF env.account_ok /\ env.equity > 0
          /\ env.margin_free * 100 < cfg.min_free_margin_percent * env.equity
    THEN "insufficient_margin"
  ELSE "None"

\* The margin check of _check_market_conditions is reached and its
\* mt5.account_info() call (line 363, outside any try) raises.
AccountInfoRaises(cfg, env, connected) ==
  /\ env.account_raises
  /\ connected /\ env.symbol_ok
  /\ ~(cfg.check_market_hours /\ env.trade_disabled)
  /\ env.spread # NoneNum
  /\ ~(env.spread * 10 > TypicalSpread * cfg.max_spread_multiplier)

\* validation_data["spread_pips"] as the retry log records it: set only once
\* the spread has been read.
ValidationSpread(cfg, env, connected) ==
  IF connected /\ env.symbol_ok /\ ~(cfg.check_market_hours /\ env.trade_disabled)
    THEN env.spread
    ELSE NoneNum

\* _execute_trade: [sent, success] -- whether mt5.order_send was called and
\* whether the result carries TRADE_RETCODE_DONE.
_execute_trade_never_done(env) ==
  IF ~env.symbol_ok \/ env.spread = NoneNum
    THEN [sent |-> FALSE, success |-> FALSE]
    ELSE [sent |-> TRUE, success |-> FALSE]

_execute_trade(env) ==
  IF ~env.symbol_ok \/ env.spread = NoneNum
    THEN [sent |-> FALSE, success |-> FALSE]
    ELSE [sent |-> TRUE, success |-> (env.send = "done")]

\* The test of the retry loop: retry_count <= max_retries.
WithinBudgetOneMore(retry_count, max_retries) == retry_count <= max_retries + 1

WithinBudget(retry_count, max_retries) == retry_count <= max_retries

\* The retry-window test at the head of the loop body.
WindowExpiredNever(time_elapsed, cfg) == FALSE

WindowExpired(time_elapsed, cfg) == time_elapsed > cfg.retry_window_seconds

\* RetryAttempt as _log_retry_attempt builds it.
RetryAttempt(req, reason, spread_before, spread_after, success) ==
  [ trade_id |-> <<"EURUSD", req.timestamp>>, attempt_number |-> req.retry_count,
    reason |-> reason, spread_before |-> spread_before,
    spread_after |-> spread_after, success |-> success ]

_log_retry_attempt_keeps_last(log, rec) == <<rec>>

_log_retry_attempt(log, rec) == Append(log, rec)

NoStep ==
  [ kind |-> "none", order |-> 0, env |-> Calm, connected |-> FALSE,
    retry_before |-> 0, time_elapsed |-> 0, reason |-> "None", next |-> "get",
    log_before |-> <<>>, sent_before |-> 0, appends_before |-> 0,
    reconnect |-> NoReconnect ]

NoWait == [ made |-> FALSE, order |-> 0, n |-> 0, waited |-> 0 ]

IdleWorker == [ pc |-> "get", cur |-> 0, delay |-> 0, since |-> 0, original_spread |-> 0 ]

NoVenue ==
  [ sent |-> 0, done |-> 0, resent |-> 0, passes |-> 0, failed_appends |-> 0, raised |-> 0 ]

\* __init__: empty queue and lists, the configuration loaded, one attempt to
\* reach the terminal.
ExecInit ==
  /\ config \in ConfigSamples
  /\ requests = <<>>
  /\ trade_queue = <<>>
  /\ worker = IdleWorker
  /\ retry_attempts = <<>>
  /\ failed_trades = <<>>
  /\ mt5_connected \in BOOLEAN
  /\ last_connection_check = StartTime
  /\ now = StartTime
  /\ venue = <<>>
  /\ last_step = NoStep
  /\ last_wait = NoWait
  /\ is_running = TRUE
  /\ shutdown = "none"
  /\ last_call = "start"

\* The executor constructed and never given an order.
ExecQuiet ==
  /\ config = CHOOSE c \in ConfigSamples : c.exponential_backoff
  /\ requests = <<>>
  /\ trade_queue = <<>>
  /\ worker = IdleWorker
  /\ retry_attempts = <<>>
  /\ failed_trades = <<>>
  /\ mt5_connected = TRUE
  /\ last_connection_check = StartTime
  /\ now = StartTime
  /\ venue = <<>>
  /\ last_step = NoStep
  /\ last_wait = NoWait
  /\ is_running = TRUE
  /\ shutdown = "none"
  /\ last_call = "start"

\* add_trade: the default budget of the request is replaced by the configured
\* one, then the request is queued.
Enqueue(s) ==
  /\ requests' = Append(requests,
       [ timestamp |-> now - s.age, retry_count |-> 0,
         max_retries |-> IF s.max_retries = DefaultMaxRetries
                           THEN config.max_retries ELSE s.max_retries ])
  /\ trade_queue' = Append(trade_queue, Len(requests) + 1)
  /\ venue' = Append(venue, NoVenue)
  /\ UNCHANGED <<config, worker, retry_attempts, failed_trades, mt5_connected,
                 last_connection_check, now, last_step, last_wait>>

AddTrade(s) == Len(requests) < MaxOrders /\ Enqueue(s)

\* Queue.get() on a queue.Queue: the item put last.
QueueGetLast(q) == [item |-> q[Len(q)], rest |-> SubSeq(q, 1, Len(q) - 1)]

\* Queue.get() on a queue.Queue: the item put first.
QueueGet(q) == [item |-> Head(q), rest |-> Tail(q)]

\* _process_queue takes the head of the queue and enters
\* _process_trade_with_retry, which reads the spread once.
TakeTrade ==
  /\ worker.pc = "get"
  /\ trade_queue # <<>>
  /\ worker' = [ pc |-> "loop", cur |-> QueueGet(trade_queue).item, delay |-> 0,
                 since |-> now, original_spread |-> TypicalSpread ]
  /\ trade_queue' = QueueGet(trade_queue).rest
  /\ UNCHANGED <<config, requests, retry_attempts, failed_trades, mt5_connected,
                 last_connection_check, now, venue, last_step, last_wait>>

\* One pass of the while loop of _process_trade_with_retry, from the loop test
\* to the point where the thread sleeps, returns or loops again.
ProcessPass(env) ==
  /\ worker.pc = "loop"
  /\ LET o == worker.cur
         req == requests[o]
         time_elapsed == now - req.timestamp
         chk == _check_mt5_connection(config, env, mt5_connected, last_connection_check, now)
         reason == _check_market_conditions(config, env, chk.connected)
         spread == ValidationSpread(config, env, chk.connected)
         rec == IF reason = "mt5_disconnection"
                  THEN _reconnect_mt5(config, env) ELSE NoReconnect
         ex == _execute_trade(env)
         bumped == [req EXCEPT !.retry_count = @ + 1]
         sleeping == [worker EXCEPT !.pc = "sleep",
                        !.delay = _calculate_retry_delay(config, bumped.retry_count),
                        !.since = now + rec.took]
         \* after a failure: sleep and loop while the budget lasts
         retrying == IF WithinBudget(bumped.retry_count, req.max_retries)
                       THEN sleeping ELSE worker
         step(kind, next) ==
           [ kind |-> kind, order |-> o, env |-> env, connected |-> chk.connected,
             retry_before |-> req.retry_count, time_elapsed |-> time_elapsed,
             reason |-> IF kind = "invalid" THEN reason ELSE "None", next |-> next,
             log_before |-> retry_attempts, sent_before |-> venue[o].sent,
             appends_before |-> venue[o].failed_appends,
             reconnect |-> IF kind = "invalid" THEN rec ELSE NoReconnect ]
     IN
     IF ~WithinBudget(req.retry_count, req.max_retries) THEN
       \* the loop ends: all retries exhausted
       /\ failed_trades' = Append(failed_trades, o)
       /\ worker' = IdleWorker
       /\ venue' = [venue EXCEPT ![o].failed_appends = @ + 1]
       /\ last_step' = step("exhausted", "get")
       /\ UNCHANGED <<config, requests, trade_queue, retry_attempts, mt5_connected,
                      last_connection_check, now, last_wait>>
     ELSE IF WindowExpired(time_elapsed, config) THEN
       /\ failed_trades' = Append(failed_trades, o)
       /\ worker' = IdleWorker
       /\ venue' = [venue EXCEPT ![o].failed_appends = @ + 1]
       /\ last_step' = step("expired", "get")
       /\ UNCHANGED <<config, requests, trade_queue, retry_attempts, mt5_connected,
                      last_connection_check, now, last_wait>>
     ELSE IF AccountInfoRaises(config, env, chk.connected) THEN
       \* the exception leaves _process_trade_with_retry; `except Exception:
       \* continue` in _process_queue goes back to get() past task_done()
       /\ mt5_connected' = chk.connected
       /\ last_connection_check' = chk.checked_at
       /\ worker' = IdleWorker
       /\ venue' = [venue EXCEPT ![o].passes = @ + 1, ![o].raised = @ + 1]
       /\ last_step' = step("raised", "get")
       /\ UNCHANGED <<config, requests, trade_queue, retry_attempts, failed_trades, now,
                      last_wait>>
     ELSE IF reason # "None" THEN
       /\ Len(retry_attempts) < MaxAttempts
       /\ retry_attempts' = _log_retry_attempt(retry_attempts,
            RetryAttempt(req, reason, worker.original_spread, spread, FALSE))
       /\ mt5_connected' = (rec.ok \/ chk.connected)
       /\ last_connection_check' = IF rec.ok THEN now + rec.took ELSE chk.checked_at
       /\ now' = now + rec.took
       /\ requests' = [requests EXCEPT ![o] = bumped]
       /\ worker' = retrying
       /\ venue' = [venue EXCEPT ![o].passes = @ + 1]
       /\ last_step' = step("invalid", retrying.pc)
       /\ UNCHANGED <<config, trade_queue, failed_trades, last_wait>>
     ELSE
       /\ Len(retry_attempts) < MaxAttempts
       /\ retry_attempts' = _log_retry_attempt(retry_attempts,
            RetryAttempt(req, "execution_failure", worker.original_spread, spread,
                         ex.success))
       /\ mt5_connected' = chk.connected
       /\ last_connection_check' = chk.checked_at
       /\ venue' = [venue EXCEPT
            ![o].passes = @ + 1,
            ![o].sent = IF ex.sent THEN @ + 1 ELSE @,
            ![o].resent = IF ex.sent /\ venue[o].done > 0 THEN @ + 1 ELSE @,
            ![o].done = IF ex.sent /\ env.send = "done" THEN @ + 1 ELSE @,
            ![o].failed_appends =
               IF ~ex.success /\ ~WithinBudget(bumped.retry_count, req.max_retries)
                 THEN @ + 1 ELSE @ ]
       /\ IF ex.success THEN
            /\ worker' = IdleWorker
            /\ last_step' = step("executed", "get")
            /\ UNCHANGED <<requests, failed_trades>>
          ELSE
            /\ requests' = [requests EXCEPT ![o] = bumped]
            /\ IF WithinBudget(bumped.retry_count, req.max_retries)
                 THEN /\ worker' = sleeping
                      /\ last_step' = step("failed", "sleep")
                      /\ UNCHANGED failed_trades
                 ELSE /\ worker' = IdleWorker
                      /\ last_step' = step("failed", "get")
                      /\ failed_trades' = Append(failed_trades, o)
       /\ UNCHANGED <<config, trade_queue, now, last_wait>>

\* time.sleep(delay) returns and the loop goes round.
Wake ==
  /\ worker.pc = "sleep"
  /\ now' = worker.since + worker.delay
  /\ worker' = [worker EXCEPT !.pc = "loop"]
  /\ last_wait' = [ made |-> TRUE, order |-> worker.cur,
                    n |-> requests[worker.cur].retry_count,
                    waited |-> now' - worker.since ]
  /\ UNCHANGED <<config, requests, trade_queue, retry_attempts, failed_trades,
                 mt5_connected, last_connection_check, venue, last_step>>

\* clear_failed_trades, called from the application thread.
ClearFailedTrades ==
  /\ failed_trades # <<>>
  /\ failed_trades' = <<>>
  /\ UNCHANGED <<config, requests, trade_queue, worker, retry_attempts, mt5_connected,
                 last_connection_check, now, venue, last_step, last_wait>>

ExecNext ==
  \/ (\E s \in RequestSamples : AddTrade(s)) /\ UNCHANGED <<parserVars, dispatchVars, strategyVars, scoringVars, shutdownVars>>
  \/ TakeTrade /\ UNCHANGED <<parserVars, dispatchVars, strategyVars, scoringVars, shutdownVars>>
  \/ (\E env \in EnvSamples : ProcessPass(env)) /\ UNCHANGED <<parserVars, dispatchVars, strategyVars, scoringVars, shutdownVars>>
  \/ Wake /\ UNCHANGED <<parserVars, dispatchVars, strategyVars, scoringVars, shutdownVars>>
  \/ ClearFailedTrades /\ UNCHANGED <<parserVars, dispatchVars, strategyVars, scoringVars, shutdownVars>>

\* Several orders handed to add_trade one after the other, the terminal
\* answering in one of a few ways.
MaxQueued == 2

QueueEnvSamples ==
  { Calm,
    [Calm EXCEPT !.send = "rejected"],
    [Calm EXCEPT !.spread = 3 * TypicalSpread] }

QueueNext ==
  \/ (\E s \in RequestSamples : Len(requests) < MaxQueued /\ Enqueue(s))
       /\ UNCHANGED <<parserVars, dispatchVars, strategyVars, scoringVars, shutdownVars>>
  \/ TakeTrade
       /\ UNCHANGED <<parserVars, dispatchVars, strategyVars, scoringVars, shutdownVars>>
  \/ (\E env \in QueueEnvSamples : ProcessPass(env))
       /\ UNCHANGED <<parserVars, dispatchVars, strategyVars, scoringVars, shutdownVars>>
  \/ Wake /\ UNCHANGED <<parserVars, dispatchVars, strategyVars, scoringVars, shutdownVars>>

\* The terminal answering, refusing the order, or raising from
\* mt5.account_info().
FaultEnvSamples ==
  { Calm,
    [Calm EXCEPT !.send = "rejected"],
    [Calm EXCEPT !.account_raises = TRUE] }

WorkerFaultsNext ==
  \/ (\E s \in RequestSamples : Len(requests) < MaxQueued /\ Enqueue(s))
       /\ UNCHANGED <<parserVars, dispatchVars, strategyVars, scoringVars, shutdownVars>>
  \/ TakeTrade
       /\ UNCHANGED <<parserVars, dispatchVars, strategyVars, scoringVars, shutdownVars>>
  \/ (\E env \in FaultEnvSamples : ProcessPass(env))
       /\ UNCHANGED <<parserVars, dispatchVars, strategyVars, scoringVars, shutdownVars>>
  \/ Wake /\ UNCHANGED <<parserVars, dispatchVars, strategyVars, scoringVars, shutdownVars>>

\* Queue.unfinished_tasks: put() counts an item in, task_done() counts it
\* out; the worker calls task_done() when _process_trade_with_retry returns.
unfinished_tasks ==
  Len(trade_queue) + (IF worker.pc \in {"loop", "sleep"} THEN 1 ELSE 0)
    + Cardinality({o \in DOMAIN venue : venue[o].raised > 0})

\* shutdown() begins: stop_processing sets is_running to False and waits for
\* the thread with join(timeout=5).
ShutdownCall ==
  /\ shutdown = "none"
  /\ is_running' = FALSE
  /\ shutdown' = "stopping"
  /\ last_call' = "stop"
  /\ UNCHANGED <<config, requests, trade_queue, worker, retry_attempts, failed_trades,
                 mt5_connected, last_connection_check, now, venue, last_step, last_wait>>

\* The loop test of _process_queue finds is_running False: the thread ends.
WorkerExit ==
  /\ worker.pc = "get"
  /\ ~is_running
  /\ worker' = [worker EXCEPT !.pc = "exited"]
  /\ UNCHANGED <<config, requests, trade_queue, retry_attempts, failed_trades,
                 mt5_connected, last_connection_check, now, venue, last_step, last_wait,
                 is_running, shutdown, last_call>>

\* join(timeout=5) returns, the thread ended or not; shutdown() then tests
\* trade_queue.empty(): empty, it calls mt5.shutdown() and returns, otherwise
\* it enters trade_queue.join().
StopProcessingReturns ==
  /\ shutdown = "stopping"
  /\ shutdown' = IF trade_queue = <<>> THEN "returned" ELSE "waiting"
  /\ UNCHANGED <<config, requests, trade_queue, worker, retry_attempts, failed_trades,
                 mt5_connected, last_connection_check, now, venue, last_step, last_wait,
                 is_running, last_call>>

\* trade_queue.join() returns once every item put has been marked done.
QueueJoinReturns ==
  /\ shutdown = "waiting"
  /\ unfinished_tasks = 0
  /\ shutdown' = "returned"
  /\ UNCHANGED <<config, requests, trade_queue, worker, retry_attempts, failed_trades,
                 mt5_connected, last_connection_check, now, venue, last_step, last_wait,
                 is_running, last_call>>

\* self.processing_thread.is_alive().
IsAlive(w) == w.pc # "exited"

\* stop_processing called on its own: is_running is set to False and the
\* caller waits for the thread with join(timeout=5).  A thread waiting in
\* trade_queue.get(timeout=1) reaches the loop test within the 5 s and has
\* ended when join returns; a thread busy with an order (its retry sleeps
\* and reconnection waits last longer than 5 s) is still alive when join
\* gives up.
StopProcessing ==
  /\ is_running' = FALSE
  /\ worker' = IF worker.pc = "get" THEN [worker EXCEPT !.pc = "exited"] ELSE worker
  /\ last_call' = "stop"
  /\ UNCHANGED <<config, requests, trade_queue, retry_attempts, failed_trades,
                 mt5_connected, last_connection_check, now, venue, last_step, last_wait,
                 shutdown>>

\* start_processing: only when the thread is not alive is is_running set to
\* True and a new thread started; otherwise nothing is done.
StartProcessing ==
  /\ IF IsAlive(worker)
       THEN UNCHANGED <<is_running, worker>>
       ELSE /\ is_running' = TRUE
            /\ worker' = IdleWorker
  /\ last_call' = "start"
  /\ UNCHANGED <<config, requests, trade_queue, retry_attempts, failed_trades,
                 mt5_connected, last_connection_check, now, venue, last_step, last_wait,
                 shutdown>>

RestartNext ==
  \/ QueueNext
  \/ StopProcessing /\ UNCHANGED <<parserVars, dispatchVars, strategyVars, scoringVars>>
  \/ StartProcessing /\ UNCHANGED <<parserVars, dispatchVars, strategyVars, scoringVars>>
  \/ WorkerExit /\ UNCHANGED <<parserVars, dispatchVars, strategyVars, scoringVars>>

ShutdownNext ==
  \/ ShutdownCall /\ UNCHANGED <<parserVars, dispatchVars, strategyVars, scoringVars>>
  \/ WorkerExit /\ UNCHANGED <<parserVars, dispatchVars, strategyVars, scoringVars>>
  \/ StopProcessingReturns /\ UNCHANGED <<parserVars, dispatchVars, strategyVars, scoringVars>>
  \/ QueueJoinReturns /\ UNCHANGED <<parserVars, dispatchVars, strategyVars, scoringVars>>

\* The steps of the processing thread and of the thread inside shutdown():
\* both threads are scheduled as long as they can run.
WorkerStep ==
  (\/ (TakeTrade \/ (\E env \in EnvSamples : ProcessPass(env)) \/ Wake)
        /\ UNCHANGED shutdownVars
   \/ WorkerExit)
    /\ UNCHANGED <<parserVars, dispatchVars, strategyVars, scoringVars>>

ShutdownStep ==
  (StopProcessingReturns \/ QueueJoinReturns)
    /\ UNCHANGED <<parserVars, dispatchVars, strategyVars, scoringVars>>


(***************************************************************************)
(*                            StrategyEngine                               *)
(* Confidence is in hundredths, prices in units of 0.0001, lot sizes in    *)
(* thousandths of a lot, lot multipliers in tenths.                        *)
(***************************************************************************)

\* Bound on the number of execute_strategy calls.
MaxEvaluations == 2

\* A 'tp' value of a parsed_signal dict: a list of prices (as the extractor
\* produces it), a single price (as in test_strategy_engine), or None.
TpList(q) == [kind |-> "list", val |-> q]
TpFloat(x) == [kind |-> "float", val |-> <<x>>]

\* The parsed_signal dicts handed to execute_strategy.  lot_size NoneNum: the
\* key is absent; tp1_hit FALSE: the key is absent (the other event keys are
\* absent from all of them).  The first is the dict of test_strategy_engine,
\* the second the same with a high confidence and the tp1_hit flag of a
\* follow-up event, the third what the extractor makes of
\* "GOLD BUY @1985, SL 1975, TP 1995 2005", the fourth an extracted intent
\* without stop-loss and without targets.
IntentIds == {"i1", "i2", "i3", "i4"}

StrategyIntents ==
  [i \in IntentIds |->
     CASE i = "i1" -> [pair |-> "EURUSD", action |-> "buy", entry |-> 11000, sl |-> 10950,
                       tp |-> TpFloat(11100), confidence |-> 65, lot_size |-> 100,
                       tp1_hit |-> FALSE]
       [] i = "i2" -> [pair |-> "EURUSD", action |-> "buy", entry |-> 11000, sl |-> 10950,
                       tp |-> TpFloat(11100), confidence |-> 90, lot_size |-> 100,
                       tp1_hit |-> TRUE]
       [] i = "i3" -> [pair |-> "GOLD", action |-> "buy", entry |-> 19850000,
                       sl |-> 19750000, tp |-> TpList(<<19950000, 20050000>>),
                       confidence |-> 100, lot_size |-> NoneNum, tp1_hit |-> FALSE]
       [] i = "i4" -> [pair |-> "EURUSD", action |-> "sell", entry |-> 10850,
                       sl |-> NoneNum, tp |-> TpList(<<>>), confidence |-> 85,
                       lot_size |-> NoneNum, tp1_hit |-> FALSE]]

\* Rules of a strategy dict.  type "" stands for a rule without 'config'.
\* value is the number float(value) gives, NoneNum when the string is not a
\* number; text is the string itself.  multiplier likewise.
Trigger(id, event) ==
  [id |-> id, type |-> "trigger", event |-> event, field |-> "", operator |-> "",
   value |-> 0, text |-> "", action |-> "", target |-> "", multiplier |-> 0]

Condition(id, field, operator, value, text) ==
  [id |-> id, type |-> "condition", event |-> "", field |-> field, operator |-> operator,
   value |-> value, text |-> text, action |-> "", target |-> "", multiplier |-> 0]

Action(id, action, target, multiplier) ==
  [id |-> id, type |-> "action", event |-> "", field |-> "", operator |-> "",
   value |-> 0, text |-> "", action |-> action, target |-> target,
   multiplier |-> multiplier]

\* A set_tp action with parameters {'value': value}.
SetTp(id, value) ==
  [id |-> id, type |-> "action", event |-> "", field |-> "", operator |-> "",
   value |-> value, text |-> "", action |-> "set_tp", target |-> "", multiplier |-> 0]

NoConfig(id) ==
  [id |-> id, type |-> "", event |-> "", field |-> "", operator |-> "",
   value |-> 0, text |-> "", action |-> "", target |-> "", multiplier |-> 0]

\* The strategy dicts handed to execute_strategy:
\*   low_confidence  signal_received -> (confidence < 0.70) -> skip_trade
\*   unknown_field   signal_received -> (volatility < 0.70) -> skip_trade
\*   halve_lot       signal_received -> (confidence >= 0.80) -> reduce_lot 0.5
\*                                                            -> move_sl entry
\*   bad_multiplier  signal_received -> skip_trade -> reduce_lot "half"
\*   no_config       a rule without 'config'
\*   loop            signal_received -> send_alert -> send_alert (itself)
\*   empty           no rules
\*   odd_actions     signal_received -> hedge (no such action) -> set_tp 0 -> send_alert
\*                                                             -> set_tp -5
\*   on_events       signal_received -> send_alert
\*                   tp1_hit -> move_sl entry
\*                   news (no such event) -> skip_trade
\*   diamond         signal_received -> skip_trade -> reduce_lot 0.5
\*                                   -> send_alert -> (the same) reduce_lot 0.5
GraphIds ==
  {"low_confidence", "unknown_field", "halve_lot", "bad_multiplier", "no_config", "loop",
   "empty", "odd_actions", "on_events", "diamond"}

StrategyGraphs ==
  [g \in GraphIds |->
     CASE g = "low_confidence" ->
            [rules |-> << Trigger("t1", "signal_received"),
                          Condition("c1", "confidence", "<", 70, "0.70"),
                          Action("a1", "skip_trade", "", 0) >>,
             connections |-> << <<"t1", "c1">>, <<"c1", "a1">> >>]
       [] g = "unknown_field" ->
            [rules |-> << Trigger("t1", "signal_received"),
                          Condition("c1", "volatility", "<", 70, "0.70"),
                          Action("a1", "skip_trade", "", 0) >>,
             connections |-> << <<"t1", "c1">>, <<"c1", "a1">> >>]
       [] g = "halve_lot" ->
            [rules |-> << Trigger("t1", "signal_received"),
                          Condition("c1", "confidence", ">=", 80, "0.80"),
                          Action("a1", "reduce_lot", "", 5),
                          Action("a2", "move_sl", "entry", 0) >>,
             connections |-> << <<"t1", "c1">>, <<"c1", "a1">>, <<"c1", "a2">> >>]
       [] g = "bad_multiplier" ->
            [rules |-> << Trigger("t1", "signal_received"),
                          Action("a1", "skip_trade", "", 0),
                          Action("a2", "reduce_lot", "", NoneNum) >>,
             connections |-> << <<"t1", "a1">>, <<"a1", "a2">> >>]
       [] g = "no_config" ->
            [rules |-> << Trigger("t1", "signal_received"), NoConfig("x1") >>,
             connections |-> << <<"t1", "x1">> >>]
       [] g = "loop" ->
            [rules |-> << Trigger("t1", "signal_received"),
                          Action("a1", "send_alert", "", 0) >>,
             connections |-> << <<"t1", "a1">>, <<"a1", "a1">> >>]
       [] g = "empty" -> [rules |-> <<>>, connections |-> <<>>]
       [] g = "odd_actions" ->
            [rules |-> << Trigger("t1", "signal_received"),
                          Action("a1", "hedge", "", 0),
                          SetTp("a2", 0),
                          SetTp("a3", -5),
                          Action("a4", "send_alert", "", 0) >>,
             connections |-> << <<"t1", "a1">>, <<"a1", "a2">>, <<"a1", "a3">>,
                                <<"a2", "a4">> >>]
       [] g = "on_events" ->
            [rules |-> << Trigger("t0", "signal_received"),
                          Action("a0", "send_alert", "", 0),
                          Trigger("t1", "tp1_hit"),
                          Action("a1", "move_sl", "entry", 0),
                          Trigger("t2", "news"),
                          Action("a2", "skip_trade", "", 0) >>,
             connections |-> << <<"t0", "a0">>, <<"t1", "a1">>, <<"t2", "a2">> >>]
       [] g = "diamond" ->
            [rules |-> << Trigger("t1", "signal_received"),
                          Action("a1", "skip_trade", "", 0),
                          Action("a2", "send_alert", "", 0),
                          Action("a3", "reduce_lot", "", 5) >>,
             connections |-> << <<"t1", "a1">>, <<"t1", "a2">>, <<"a1", "a3">>,
                                <<"a2", "a3">> >>]]

NoPayload ==
  [pair |-> "", action |-> "", entry |-> 0, sl |-> NoneNum, tp |-> NoneNum,
   lot_size |-> 0, confidence |-> 0, modified_by_strategy |-> FALSE,
   strategy_actions |-> <<>>, execution_allowed |-> TRUE]

\* bool(x) of a 'tp' value, and whether float(x) raises TypeError.
TpTruthy(tp) == tp.val # <<>> /\ (tp.kind = "float" => tp.val[1] # 0)

\* _create_signal_payload: [raised, payload].  float() of None or of a list
\* raises TypeError.
_create_signal_payload(parsed_signal) ==
  IF parsed_signal.entry = NoneNum \/ (TpTruthy(parsed_signal.tp) /\ parsed_signal.tp.kind = "list")
    THEN [raised |-> TRUE, payload |-> NoPayload]
    ELSE [raised |-> FALSE,
          payload |->
            [pair |-> parsed_signal.pair, action |-> parsed_signal.action,
             entry |-> parsed_signal.entry,
             sl |-> IF Truthy(parsed_signal.sl) THEN parsed_signal.sl ELSE NoneNum,
             tp |-> IF TpTruthy(parsed_signal.tp) THEN parsed_signal.tp.val[1] ELSE NoneNum,
             lot_size |-> IF parsed_signal.lot_size = NoneNum THEN 100
                          ELSE parsed_signal.lot_size,
             confidence |-> parsed_signal.confidence,
             modified_by_strategy |-> FALSE, strategy_actions |-> <<>>,
             execution_allowed |-> TRUE]]

\* self.strategy_rules[rule_id]: the last rule of the strategy with this id.
HasRule(g, rule_id) == \E k \in DOMAIN g.rules : g.rules[k].id = rule_id

RuleById(g, rule_id) ==
  g.rules[Max({k \in DOMAIN g.rules : g.rules[k].id = rule_id})]

\* self.rule_connections.get(rule_id, []): the first target only.
RECURSIVE NextRulesFirst(_, _)
NextRulesFirst(connections, rule_id) ==
  IF connections = <<>> THEN <<>>
  ELSE IF Head(connections)[1] = rule_id THEN <<Head(connections)[2]>>
  ELSE NextRulesFirst(Tail(connections), rule_id)

\* self.rule_connections.get(rule_id, []): the targets in the order given.
RECURSIVE NextRules(_, _)
NextRules(connections, rule_id) ==
  IF connections = <<>> THEN <<>>
  ELSE (IF Head(connections)[1] = rule_id THEN <<Head(connections)[2]>> ELSE <<>>)
         \o NextRules(Tail(connections), rule_id)

\* _find_trigger_rules reads rule['config']['type'] of every rule: KeyError
\* when a rule has no 'config'.
FindTriggersFaults(g) == \E k \in DOMAIN g.rules : g.rules[k].type = ""

RECURSIVE TriggersOf(_)
TriggersOf(rules) ==
  IF rules = <<>> THEN <<>>
  ELSE (IF Head(rules).type = "trigger" THEN <<Head(rules)>> ELSE <<>>)
         \o TriggersOf(Tail(rules))

_find_trigger_rules(g) == TriggersOf(g.rules)

\* Every trigger fires.
_should_execute_trigger_any(trigger_rule, parsed_signal) == TRUE

\* _should_execute_trigger: trigger_map.get(event, False).  'signal_received'
\* always fires; the other known events fire on the flag of that name in the
\* parsed signal, False when the key is absent; an event outside the map
\* never fires.
_should_execute_trigger(trigger_rule, parsed_signal) ==
  CASE trigger_rule.event = "signal_received" -> TRUE
    [] trigger_rule.event = "tp1_hit" -> parsed_signal.tp1_hit
    [] trigger_rule.event \in {"tp2_hit", "sl_hit", "trade_opened", "market_close"} -> FALSE
    [] OTHER -> FALSE

\* _get_payload_value: field_map.get(field, 0).
_get_payload_value(payload, field) ==
  CASE field = "confidence" -> payload.confidence
    [] field = "pair" -> payload.pair
    [] field = "entry" -> payload.entry
    [] field = "sl" -> IF Truthy(payload.sl) THEN payload.sl ELSE 0
    [] field = "tp" -> IF Truthy(payload.tp) THEN payload.tp ELSE 0
    [] field = "risk" -> payload.lot_size * 10000
    [] field = "lot_size" -> payload.lot_size
    [] OTHER -> 0

\* _parse_value for a numeric current value: float(value_str), 0.0 on ValueError.
_parse_value(rule) == IF rule.value = NoneNum THEN 0 ELSE rule.value

\* _compare_values on numbers; an unknown operator gives False.
_compare_values(left, operator, right) ==
  CASE operator = "<" -> left < right
    [] operator = ">" -> left > right
    [] operator = "=" -> left = right
    [] operator = "!=" -> left # right
    [] operator = "<=" -> left <= right
    [] operator = ">=" -> left >= right
    [] OTHER -> FALSE

\* _execute_condition.  'pair' is the one string field: = and != compare it
\* with the text, the ordering operators call float() on it, which raises
\* ValueError inside _compare_values and gives False.
_execute_condition(payload, rule) ==
  IF rule.field = "pair"
    THEN CASE rule.operator = "=" -> payload.pair = rule.text
           [] rule.operator = "!=" -> payload.pair # rule.text
           [] OTHER -> FALSE
    ELSE _compare_values(_get_payload_value(payload, rule.field), rule.operator,
                         _parse_value(rule))

\* _move_stop_loss.  The half-way level is rounded to the price unit.
_move_stop_loss(payload, target) ==
  CASE target \in {"entry", "breakeven"} ->
         [payload EXCEPT !.sl = payload.entry,
            !.strategy_actions = Append(@, "sl_moved_to_" \o target)]
    [] target = "tp1" /\ Truthy(payload.tp) ->
         [payload EXCEPT
            !.sl = IF payload.action = "buy"
                     THEN payload.entry + (payload.tp - payload.entry) \div 2
                     ELSE payload.entry - (payload.entry - payload.tp) \div 2,
            !.strategy_actions = Append(@, "sl_moved_to_tp1_level")]
    [] OTHER -> payload

\* skip_trade that only leaves its label.
SkipTradeLabelOnly(payload) ==
  [payload EXCEPT !.strategy_actions = Append(@, "trade_skipped")]

\* The skip_trade branch of _execute_action.
SkipTrade(payload) ==
  [payload EXCEPT !.execution_allowed = FALSE,
     !.strategy_actions = Append(@, "trade_skipped")]

\* _execute_action: [fault, payload].  float() of a multiplier or value that
\* is not a number raises ValueError before anything is changed.
_execute_action(payload, rule) ==
  LET done(p) == [fault |-> FALSE, payload |-> [p EXCEPT !.modified_by_strategy = TRUE]]
      raise == [fault |-> TRUE, payload |-> payload]
  IN  CASE rule.action = "skip_trade" -> done(SkipTrade(payload))
        [] rule.action = "move_sl" -> done(_move_stop_loss(payload, rule.target))
        [] rule.action = "close_trade" ->
             done([payload EXCEPT !.strategy_actions = Append(@, "close_trade")])
        [] rule.action = "reduce_lot" ->
             IF rule.multiplier = NoneNum THEN raise
             ELSE done([payload EXCEPT !.lot_size = (@ * rule.multiplier) \div 10,
                          !.strategy_actions = Append(@, "lot_reduced_" \o ToString(rule.multiplier))])
        [] rule.action = "increase_lot" ->
             IF rule.multiplier = NoneNum THEN raise
             ELSE done([payload EXCEPT !.lot_size = (@ * rule.multiplier) \div 10,
                          !.strategy_actions = Append(@, "lot_increased_" \o ToString(rule.multiplier))])
        [] rule.action = "set_tp" ->
             IF rule.value = NoneNum THEN raise
             ELSE IF rule.value > 0
               THEN done([payload EXCEPT !.tp = rule.value,
                            !.strategy_actions = Append(@, "tp_modified")])
               ELSE done(payload)
        [] rule.action = "send_alert" ->
             done([payload EXCEPT !.strategy_actions = Append(@, "alert_sent")])
        [] OTHER -> done(payload)

\* A walk deeper than the number of rules has come round a cycle; Python
\* then recurses until RecursionError, which execute_strategy catches like
\* any other fault.
RecursionLimit(g) == Len(g.rules) + 1

\* The walk of a condition: do the successors run.
ConditionPassesAlways(result) == TRUE

ConditionPasses(result) == result

\* _execute_rule_chain.  st is [payload, history, fault]: the payload object
\* as mutated so far, the executions recorded, whether an exception is on its
\* way up.
RECURSIVE _execute_rule_chain(_, _, _, _)
RECURSIVE ExecuteNextRules(_, _, _, _)
_execute_rule_chain(g, rule_id, st, depth) ==
  IF st.fault THEN st
  ELSE IF depth > RecursionLimit(g) THEN [st EXCEPT !.fault = TRUE]
  ELSE IF ~HasRule(g, rule_id) THEN st
  ELSE
    LET rule == RuleById(g, rule_id)
        acted == IF rule.type = "action" THEN _execute_action(st.payload, rule)
                 ELSE [fault |-> FALSE, payload |-> st.payload]
        execution_result ==
          CASE rule.type = "trigger" -> TRUE
            [] rule.type = "condition" -> ConditionPasses(_execute_condition(st.payload, rule))
            [] rule.type = "action" -> TRUE
            [] OTHER -> FALSE
        recorded ==
          [ payload |-> acted.payload,
            history |-> Append(st.history,
                               [rule_id |-> rule_id, rule_type |-> rule.type,
                                result |-> execution_result]),
            fault |-> FALSE ]
    IN  IF rule.type = "" \/ acted.fault THEN [st EXCEPT !.fault = TRUE]
        ELSE IF execution_result
          THEN ExecuteNextRules(g, NextRules(g.connections, rule_id), recorded, depth + 1)
          ELSE recorded

ExecuteNextRules(g, next, st, depth) ==
  IF next = <<>> THEN st
  ELSE ExecuteNextRules(g, Tail(next), _execute_rule_chain(g, Head(next), st, depth), depth)

\* The loop over the trigger rules in execute_strategy.
RECURSIVE RunTriggers(_, _, _, _)
RunTriggers(g, triggers, parsed_signal, st) ==
  IF triggers = <<>> \/ st.fault THEN st
  ELSE RunTriggers(g, Tail(triggers), parsed_signal,
                   IF _should_execute_trigger(Head(triggers), parsed_signal)
                     THEN _execute_rule_chain(g, Head(triggers).id, st, 1)
                     ELSE st)

\* The identity of a newly constructed SignalPayload.
NewObjectReused(objs, current) == IF current # 0 THEN current ELSE Len(objs) + 1

NewObject(objs, current) == Len(objs) + 1

Store(objs, ref, payload) ==
  [k \in 1..Max({Len(objs), ref}) |-> IF k = ref THEN payload ELSE objs[k]]

NoGraph == ""

\* The threads that call execute_strategy on the one engine.
Threads == {1, 2}

NoEval == [pc |-> "idle", intent |-> "", graph |-> "", executed |-> 0]

\* Bounds of the integrated system: strategies loaded, signals processed.
MaxStrategies == 2
MaxSignals == 1

NoSignalProcessed ==
  [count |-> 0, intent |-> "", strategies |-> <<>>, allowed |-> <<>>, raised |-> FALSE,
   executed |-> FALSE]

StrategyInit ==
  /\ intents = StrategyIntents
  /\ objects = <<>>
  /\ current_payload = 0
  /\ execution_history = <<>>
  /\ strategy_rules = NoGraph
  /\ results = <<>>
  /\ evals = [t \in Threads |-> NoEval]
  /\ active_strategies = <<>>
  /\ last_signal = NoSignalProcessed

\* The engine constructed and never called.
StrategyQuiet == StrategyInit

\* execute_strategy(intents[i], StrategyGraphs[gid]).
ExecuteStrategy(i, gid) ==
  /\ Len(results) < MaxEvaluations
  /\ LET parsed_signal == intents[i]
         g == StrategyGraphs[gid]
         made == _create_signal_payload(parsed_signal)
         ref == NewObject(objects, current_payload)
         start == [payload |-> made.payload, history |-> <<>>, fault |-> FALSE]
         st == IF FindTriggersFaults(g) THEN [start EXCEPT !.fault = TRUE]
               ELSE RunTriggers(g, _find_trigger_rules(g), parsed_signal, start)
         mine == Store(objects, ref, st.payload)
         \* the except branch builds the payload afresh
         ref2 == NewObject(mine, ref)
     IN
     IF made.raised THEN
       \* TypeError in the try block and again in the except block
       /\ results' = Append(results,
            [intent |-> i, graph |-> gid, raised |-> TRUE, fault |-> TRUE, ref |-> 0,
             payload |-> NoPayload, executed |-> 0])
       /\ UNCHANGED <<integrationVars, intents, objects, current_payload, execution_history, strategy_rules,
                      evals>>
     ELSE
       /\ current_payload' = ref
       /\ strategy_rules' = gid
       /\ execution_history' = execution_history \o st.history
       /\ objects' = IF st.fault THEN Store(mine, ref2, made.payload) ELSE mine
       /\ results' = Append(results,
            [intent |-> i, graph |-> gid, raised |-> FALSE, fault |-> st.fault,
             ref |-> IF st.fault THEN ref2 ELSE ref,
             payload |-> IF st.fault THEN made.payload ELSE st.payload,
             executed |-> Len(st.history)])
       /\ UNCHANGED <<integrationVars, intents, evals>>

\* clear_execution_history.
ClearExecutionHistory ==
  /\ execution_history' = <<>>
  /\ current_payload' = 0
  /\ strategy_rules' = NoGraph
  /\ UNCHANGED <<integrationVars, intents, objects, results, evals>>

StrategyNext ==
  \/ (\E i \in IntentIds, gid \in GraphIds : ExecuteStrategy(i, gid))
       /\ UNCHANGED <<parserVars, dispatchVars, execVars, scoringVars>>
  \/ ClearExecutionHistory /\ UNCHANGED <<parserVars, dispatchVars, execVars, scoringVars>>

\* load_visual_strategy: the strategy read from the file is appended to
\* self.active_strategies.
LoadVisualStrategy(gid) ==
  /\ Len(active_strategies) < MaxStrategies
  /\ active_strategies' = Append(active_strategies, gid)
  /\ UNCHANGED <<intents, objects, current_payload, execution_history, strategy_rules,
                 results, evals, last_signal>>

\* The loop of process_telegram_signal over self.active_strategies for a
\* parsed signal a payload can be built from: each pass calls
\* execute_strategy (a new payload object, and another one when the walk
\* faults), keeps its result as final_payload and clears the engine.
\* st is [objects, final, allowed]: the objects so far, the identity of
\* final_payload (0 for None), the execution_allowed of each result.
RECURSIVE ApplyStrategies(_, _, _)
ApplyStrategies(strategies, i, st) ==
  IF strategies = <<>> THEN st
  ELSE
    LET g == StrategyGraphs[Head(strategies)]
        made == _create_signal_payload(intents[i])
        start == [payload |-> made.payload, history |-> <<>>, fault |-> FALSE]
        walk == IF FindTriggersFaults(g) THEN [start EXCEPT !.fault = TRUE]
                ELSE RunTriggers(g, _find_trigger_rules(g), intents[i], start)
        ref == NewObject(st.objects, 0)
        mine == Store(st.objects, ref, walk.payload)
        ref2 == NewObject(mine, ref)
        objs == IF walk.fault THEN Store(mine, ref2, made.payload) ELSE mine
        result == IF walk.fault THEN ref2 ELSE ref
    IN  ApplyStrategies(Tail(strategies), i,
          [objects |-> objs, final |-> result,
           allowed |-> Append(st.allowed, objs[result].execution_allowed)])

\* process_telegram_signal for the parsed signal intents[i].  When the payload
\* cannot be built execute_strategy raises out of the first pass and nothing
\* is executed.  executed: execute_trade was called.
ProcessTelegramSignal(i) ==
  /\ last_signal.count < MaxSignals
  /\ LET made == _create_signal_payload(intents[i])
         raises == made.raised /\ active_strategies # <<>>
         st == ApplyStrategies(active_strategies, i,
                               [objects |-> objects, final |-> 0, allowed |-> <<>>])
     IN  IF raises THEN
           /\ last_signal' = [count |-> last_signal.count + 1, intent |-> i,
                              strategies |-> active_strategies, allowed |-> <<>>,
                              raised |-> TRUE, executed |-> FALSE]
           /\ UNCHANGED <<objects, current_payload, execution_history, strategy_rules>>
         ELSE
           /\ last_signal' = [count |-> last_signal.count + 1, intent |-> i,
                              strategies |-> active_strategies, allowed |-> st.allowed,
                              raised |-> FALSE,
                              executed |-> st.final # 0 /\ st.objects[st.final].execution_allowed]
           /\ objects' = st.objects
           /\ IF active_strategies = <<>>
                THEN UNCHANGED <<current_payload, execution_history, strategy_rules>>
                ELSE /\ current_payload' = 0
                     /\ execution_history' = <<>>
                     /\ strategy_rules' = NoGraph
  /\ UNCHANGED <<intents, results, evals, active_strategies>>

IntegrationNext ==
  \/ (\E gid \in GraphIds : LoadVisualStrategy(gid))
       /\ UNCHANGED <<parserVars, dispatchVars, execVars, scoringVars>>
  \/ (\E i \in IntentIds : ProcessTelegramSignal(i))
       /\ UNCHANGED <<parserVars, dispatchVars, execVars, scoringVars>>

\* What execute_strategy returns for an intent and a graph when no other call
\* runs on the engine (the intent being one a payload can be built from).
EvaluateAlone(i, gid) ==
  LET g == StrategyGraphs[gid]
      made == _create_signal_payload(intents[i])
      start == [payload |-> made.payload, history |-> <<>>, fault |-> FALSE]
      st == IF FindTriggersFaults(g) THEN [start EXCEPT !.fault = TRUE]
            ELSE RunTriggers(g, _find_trigger_rules(g), intents[i], start)
  IN  IF st.fault THEN made.payload ELSE st.payload

\* The walk execute_strategy makes for an intent and a graph when no other
\* call runs on the engine: [payload, history, fault] as the loop over the
\* triggers leaves them.
Walked(i, gid) ==
  LET g == StrategyGraphs[gid]
      made == _create_signal_payload(intents[i])
      start == [payload |-> made.payload, history |-> <<>>, fault |-> FALSE]
  IN  IF FindTriggersFaults(g) THEN [start EXCEPT !.fault = TRUE]
      ELSE RunTriggers(g, _find_trigger_rules(g), intents[i], start)

Active == {t \in Threads : evals[t].pc # "idle"}

\* Thread t enters execute_strategy: line 97 builds the payload and stores it
\* in self.current_payload.  When the payload cannot be built the call
\* raises, in the try block and again in the except block.
EvalBegin(t, i, gid) ==
  /\ evals[t].pc = "idle"
  /\ Len(results) + Cardinality(Active) < MaxEvaluations
  /\ LET made == _create_signal_payload(intents[i])
         ref == NewObject(objects, current_payload)
     IN  IF made.raised THEN
           /\ results' = Append(results,
                [intent |-> i, graph |-> gid, raised |-> TRUE, fault |-> TRUE, ref |-> 0,
                 payload |-> NoPayload, executed |-> 0])
           /\ UNCHANGED <<integrationVars, intents, objects, current_payload, execution_history,
                          strategy_rules, evals>>
         ELSE
           /\ objects' = Store(objects, ref, made.payload)
           /\ current_payload' = ref
           /\ evals' = [evals EXCEPT ![t] = [pc |-> "load", intent |-> i, graph |-> gid,
                                              executed |-> 0]]
           /\ UNCHANGED <<integrationVars, intents, execution_history, strategy_rules, results>>

\* Line 100: _load_strategy_rules replaces self.strategy_rules and
\* self.rule_connections.
EvalLoad(t) ==
  /\ evals[t].pc = "load"
  /\ strategy_rules' = evals[t].graph
  /\ evals' = [evals EXCEPT ![t].pc = "walk"]
  /\ UNCHANGED <<integrationVars, intents, objects, current_payload, execution_history, results>>

\* Lines 103-108: the triggers are found and their chains walked, on
\* self.strategy_rules and self.current_payload as they are now.
EvalWalk(t) ==
  /\ evals[t].pc = "walk"
  /\ LET g == StrategyGraphs[strategy_rules]
         start == [payload |-> objects[current_payload], history |-> <<>>, fault |-> FALSE]
         st == IF FindTriggersFaults(g) THEN [start EXCEPT !.fault = TRUE]
               ELSE RunTriggers(g, _find_trigger_rules(g), intents[evals[t].intent], start)
     IN  /\ objects' = Store(objects, current_payload, st.payload)
         /\ execution_history' = execution_history \o st.history
         /\ evals' = [evals EXCEPT ![t].pc = IF st.fault THEN "except" ELSE "return",
                                    ![t].executed = Len(st.history)]
  /\ UNCHANGED <<integrationVars, intents, current_payload, strategy_rules, results>>

\* Line 114: return self.current_payload.
EvalReturn(t) ==
  /\ evals[t].pc = "return"
  /\ results' = Append(results,
       [intent |-> evals[t].intent, graph |-> evals[t].graph, raised |-> FALSE,
        fault |-> FALSE, ref |-> current_payload, payload |-> objects[current_payload],
        executed |-> evals[t].executed])
  /\ evals' = [evals EXCEPT ![t] = NoEval]
  /\ UNCHANGED <<integrationVars, intents, objects, current_payload, execution_history, strategy_rules>>

\* Line 119: the except branch returns a payload built afresh from the intent.
EvalExcept(t) ==
  /\ evals[t].pc = "except"
  /\ LET made == _create_signal_payload(intents[evals[t].intent])
         ref == NewObject(objects, current_payload)
     IN  /\ objects' = Store(objects, ref, made.payload)
         /\ results' = Append(results,
              [intent |-> evals[t].intent, graph |-> evals[t].graph, raised |-> FALSE,
               fault |-> TRUE, ref |-> ref, payload |-> made.payload,
               executed |-> evals[t].executed])
  /\ evals' = [evals EXCEPT ![t] = NoEval]
  /\ UNCHANGED <<integrationVars, intents, current_payload, execution_history, strategy_rules>>

EngineThreadsNext ==
  \/ (\E t \in Threads, i \in IntentIds, gid \in GraphIds : EvalBegin(t, i, gid))
       /\ UNCHANGED <<parserVars, dispatchVars, execVars, scoringVars>>
  \/ (\E t \in Threads : EvalLoad(t))
       /\ UNCHANGED <<parserVars, dispatchVars, execVars, scoringVars>>
  \/ (\E t \in Threads : EvalWalk(t))
       /\ UNCHANGED <<parserVars, dispatchVars, execVars, scoringVars>>
  \/ (\E t \in Threads : EvalReturn(t))
       /\ UNCHANGED <<parserVars, dispatchVars, execVars, scoringVars>>
  \/ (\E t \in Threads : EvalExcept(t))
       /\ UNCHANGED <<parserVars, dispatchVars, execVars, scoringVars>>

(***************************************************************************)
(*                             ProviderScoring                             *)
(*                                                                         *)
(* Pips are whole numbers; score, win_rate and avg_pips are kept in        *)
(* hundredths, the two decimals round(x, 2) leaves.                        *)
(***************************************************************************)

\* Bound of the scoring model: outcomes recorded over all channels.
MaxOutcomes == 3

Channels == {"ch1", "ch2"}

\* The result dicts handed to update_signal_result.  has_pips, has_success:
\* whether the dict carries the key.
ResultSamples ==
  { [success |-> TRUE, pips |-> 300, has_pips |-> TRUE, has_success |-> TRUE],
    [success |-> TRUE, pips |-> 1000, has_pips |-> TRUE, has_success |-> TRUE],
    [success |-> FALSE, pips |-> -500, has_pips |-> TRUE, has_success |-> TRUE],
    [success |-> FALSE, pips |-> 0, has_pips |-> FALSE, has_success |-> FALSE] }

\* result.get('pips', 0)
ResultPips(result) == IF result.has_pips THEN result.pips ELSE 0

\* result.get('success'), as a truth value
ResultSuccess(result) == result.has_success /\ result.success

RECURSIVE SumPips(_)
SumPips(data) == IF data = <<>> THEN 0 ELSE ResultPips(Head(data).result) + SumPips(Tail(data))

RECURSIVE CountSuccess(_)
CountSuccess(data) ==
  IF data = <<>> THEN 0
  ELSE (IF ResultSuccess(Head(data).result) THEN 1 ELSE 0) + CountSuccess(Tail(data))

\* round(n / d, 2) in hundredths, d > 0: the nearest hundredth.
RoundHundredths(n, d) == (200 * n + d) \div (2 * d)

\* calculate_provider_score on the outcomes of one channel.
\*   score = win_rate * 60 + min(avg_pips / 10, 40)
\*         = (successful * 600 + min(total_pips, 400 * total)) / (10 * total)
calculate_provider_score(data) ==
  IF data = <<>> THEN [score |-> 0, trades |-> 0, win_rate |-> 0, avg_pips |-> 0]
  ELSE
    LET total_trades == Len(data)
        successful_trades == CountSuccess(data)
        total_pips == SumPips(data)
    IN  [ score |-> RoundHundredths(successful_trades * 600
                                      + Min({total_pips, 400 * total_trades}),
                                    10 * total_trades),
          trades |-> total_trades,
          win_rate |-> RoundHundredths(successful_trades * 100, total_trades),
          avg_pips |-> RoundHundredths(total_pips, total_trades) ]

RECURSIVE TotalOutcomes(_)
TotalOutcomes(S) ==
  IF S = {} THEN 0
  ELSE LET c == CHOOSE x \in S : TRUE IN Len(performance_data[c]) + TotalOutcomes(S \ {c})

NoScore ==
  [made |-> FALSE, channel |-> "", data |-> <<>>,
   ret |-> [score |-> 0, trades |-> 0, win_rate |-> 0, avg_pips |-> 0]]

ScoringInit ==
  /\ performance_data = [c \in Channels |-> <<>>]
  /\ last_score = NoScore

\* The scorer constructed and never called.
ScoringQuiet == ScoringInit

\* update_signal_result(signal_id, channel_id, result)
UpdateSignalResult(c, result) ==
  /\ TotalOutcomes(Channels) < MaxOutcomes
  /\ performance_data' =
       [performance_data EXCEPT
          ![c] = Append(@, [result |-> result, pips |-> ResultPips(result),
                            success |-> ResultSuccess(result)])]
  /\ UNCHANGED last_score

\* calculate_provider_score(channel_id)
CalculateProviderScore(c) ==
  /\ last_score' = [made |-> TRUE, channel |-> c, data |-> performance_data[c],
                    ret |-> calculate_provider_score(performance_data[c])]
  /\ UNCHANGED performance_data

ScoringNext ==
  \/ (\E c \in Channels, result \in ResultSamples : UpdateSignalResult(c, result))
       /\ UNCHANGED <<parserVars, dispatchVars, execVars, strategyVars>>
  \/ (\E c \in Channels : CalculateProviderScore(c))
       /\ UNCHANGED <<parserVars, dispatchVars, execVars, strategyVars>>

(***************************************************************************)
(*                            Specifications                               *)
(***************************************************************************)

InitParser == ParserInit /\ DispatchQuiet /\ ExecQuiet /\ StrategyQuiet /\ ScoringQuiet

SpecParser == InitParser /\ [][ParserNext]_vars

SpecProducers == InitParser /\ [][ProducersNext]_vars

SpecConfidence == InitParser /\ [][ConfidenceNext]_vars

\* The event loop runs a task that is ready: the steps of the process_queue
\* task are taken when they stay possible.
SpecMonitoring ==
  /\ InitParser
  /\ [][MonitoringNext]_vars
  /\ WF_vars(ConsumerBegins)
  /\ WF_vars(ConsumerPass)
  /\ WF_vars(ConsumerReturns)

InitDispatch == ParserInit /\ DispatchInit /\ ExecQuiet /\ StrategyQuiet /\ ScoringQuiet

SpecDispatch == InitDispatch /\ [][DispatchNext]_vars

InitExec == ParserInit /\ DispatchQuiet /\ ExecInit /\ StrategyQuiet /\ ScoringQuiet

SpecExec == InitExec /\ [][ExecNext]_vars

SpecQueue == InitExec /\ [][QueueNext]_vars

SpecWorkerFaults == InitExec /\ [][WorkerFaultsNext]_vars

SpecRestart == InitExec /\ [][RestartNext]_vars

ShutdownSpecNext == ExecNext \/ ShutdownNext

SpecShutdown ==
  InitExec /\ [][ShutdownSpecNext]_vars /\ WF_vars(WorkerStep) /\ WF_vars(ShutdownStep)

InitStrategy == ParserInit /\ DispatchQuiet /\ ExecQuiet /\ StrategyInit /\ ScoringQuiet

SpecStrategy == InitStrategy /\ [][StrategyNext]_vars

SpecEngineThreads == InitStrategy /\ [][EngineThreadsNext]_vars

SpecIntegration == InitStrategy /\ [][IntegrationNext]_vars

InitScoring == ParserInit /\ DispatchQuiet /\ ExecQuiet /\ StrategyQuiet /\ ScoringInit

SpecScoring == InitScoring /\ [][ScoringNext]_vars

(***************************************************************************)
(*                                Claims                                   *)
(***************************************************************************)


\* C1: among the parse_signal calls of one parser that share raw text, origin
\* channel and hour bucket, a call made after one of them returned an intent
\* returns None, rejected as a duplicate (its hash is found in the index).
C1_OnlyFirstAccepted ==
  (last_parse.called /\ last_parse.prior) => (~last_parse.ret.ok /\ last_parse.dup)

\* A second call with the text, channel and hour of an accepted one was made.
C1_Witness ==
  /\ last_parse.called /\ last_parse.prior /\ ~last_parse.ret.ok
  /\ <<last_parse.raw, last_parse.channel, last_parse.hour>> \in returned

\* C9: parse_signal never returns an intent whose confidence is below 0.85; a
\* text scoring below the floor is rejected and the rejection leaves the
\* dedup index as it was.
C9_FloorRejects ==
  last_parse.called =>
    /\ last_parse.ret.ok => last_parse.ret.confidence >= 85
    /\ last_parse.conf < 85 =>
         (~last_parse.ret.ok /\ processed_hashes = last_parse.before)

\* A text scoring 0.50 (symbol and side only) was submitted, was no duplicate,
\* and was rejected, with accepted hashes already in the index.
C9_Witness ==
  /\ last_parse.called /\ last_parse.conf = 50 /\ ~last_parse.dup
  /\ ~last_parse.ret.ok /\ processed_hashes # {}


\* The 'dispatched' lines of the audit log for one user and one date.
DispatchedCount(u, d) == _get_daily_trade_count(trade_executions, u, d)

\* C2: the number of audit-log entries with status 'dispatched' for one user
\* on one calendar date never exceeds that user's max_daily_trades, whatever
\* the interleaving of the dispatch_signal calls.
C2_DailyCapHolds ==
  \A u \in Users : \A d \in 0..MaxDate :
    DispatchedCount(u, d) <= user_configs[u].max_daily_trades

\* C10: a write attempt is accepted only if the file read back is the order:
\* the checksum recomputed over the file's fields other than checksum is the
\* order's checksum, and no such field differs from the order's.
C10_VerifiedFileIsTheOrder ==
  (last_write.made /\ last_write.accepted) =>
    /\ last_write.file.readable
    /\ _calculate_checksum(last_write.file.data) = last_write.order.checksum
    /\ last_write.file.data = last_write.order


\* --------------------------- executor claims ---------------------------

\* The checks of the validation stage in the order the code runs them, each
\* with the typed reason it gives, evaluated on what the terminal answered
\* during the last pass.
ValidationChecks ==
  LET e == last_step.env IN
  << <<~last_step.connected, "mt5_disconnection">>,
     <<~e.symbol_ok, "execution_failure">>,
     <<config.check_market_hours /\ e.trade_disabled, "market_closed">>,
     <<e.spread = NoneNum, "execution_failure">>,
     <<e.spread # NoneNum /\ e.spread * 10 > TypicalSpread * config.max_spread_multiplier,
       "spread_too_high">>,
     <<e.account_ok /\ e.equity > 0
         /\ e.margin_free * 100 < config.min_free_margin_percent * e.equity,
       "insufficient_margin">> >>

FailingChecks == {i \in DOMAIN ValidationChecks : ValidationChecks[i][1]}

\* The record the last pass appended to the retry log.
Appended == retry_attempts[Len(last_step.log_before) + 1]

ValidationFailed == last_step.kind = "invalid"

\* A failed validation submits nothing and logs the reason of the first check
\* that failed; a live spread of three times the typical one under multiplier
\* 2.0, with the earlier checks passing, is one such failure.
NotSubmittedTypedReason ==
  /\ ValidationFailed =>
       /\ venue[last_step.order].sent = last_step.sent_before
       /\ Len(retry_attempts) = Len(last_step.log_before) + 1
       /\ ~Appended.success
       /\ FailingChecks # {}
       /\ Appended.reason = ValidationChecks[Min(FailingChecks)][2]
  /\ ( /\ last_step.kind \in {"invalid", "executed", "failed"}
       /\ last_step.connected /\ last_step.env.symbol_ok
       /\ ~last_step.env.trade_disabled
       /\ last_step.env.spread = 3 * TypicalSpread
       /\ config.max_spread_multiplier = 20 )
     => /\ ValidationFailed
        /\ Appended.reason = "spread_too_high"

\* C3 as stated: in any attempt in which a validation check fails the order is
\* not submitted and is put into retry with the typed reason of the first
\* failing check (spread 3x typical under multiplier 2x: SPREAD_TOO_HIGH).
C3_AlwaysPutIntoRetry ==
  /\ NotSubmittedTypedReason
  /\ ValidationFailed => last_step.next = "sleep"

\* C3 (amended): a failed validation is never submitted, is logged with the
\* typed reason of the first failing check and costs one retry; the order is
\* put into retry exactly when that leaves the retry budget unexhausted, and
\* otherwise leaves the loop for failed_trades without a further attempt.
C3_RetryWhileBudgetLasts ==
  /\ NotSubmittedTypedReason
  /\ ValidationFailed =>
       /\ requests[last_step.order].retry_count = last_step.retry_before + 1
       /\ IF last_step.retry_before + 1 <= requests[last_step.order].max_retries
            THEN last_step.next = "sleep"
            ELSE last_step.next = "loop"
  /\ last_step.kind = "exhausted" =>
       /\ retry_attempts = last_step.log_before
       /\ venue[last_step.order].sent = last_step.sent_before
       /\ venue[last_step.order].failed_appends = last_step.appends_before + 1

C3_Witness ==
  /\ ValidationFailed
  /\ last_step.env.spread = 3 * TypicalSpread
  /\ Appended.reason = "spread_too_high"
  /\ last_step.next = "sleep"
  /\ worker.pc = "sleep"

InFailedTrades(o) == \E i \in DOMAIN failed_trades : failed_trades[i] = o

InQueue(o) == \E i \in DOMAIN trade_queue : trade_queue[i] = o

C5_BudgetBoundsAttempts ==
  /\ last_step.kind \in {"invalid", "failed"} =>
       requests[last_step.order].retry_count = last_step.retry_before + 1
  /\ last_step.kind = "executed" =>
       requests[last_step.order].retry_count = last_step.retry_before
  /\ \A o \in DOMAIN requests :
       /\ venue[o].passes <= requests[o].max_retries + 1
       /\ requests[o].retry_count <= venue[o].passes
       /\ venue[o].failed_appends <= 1
       /\ (requests[o].retry_count > requests[o].max_retries /\ worker.cur # o)
            => venue[o].failed_appends = 1

C5_Witness ==
  \E o \in DOMAIN requests :
    /\ requests[o].max_retries = 2
    /\ requests[o].retry_count = 3
    /\ venue[o].passes = 3
    /\ venue[o].failed_appends = 1

\* C6: a pass of the loop that starts more than retry_window_seconds after the
\* creation of the order ends it in failed_trades without validating (nothing
\* is logged) and without submitting, whatever is left of the budget.
C6_WindowEndsOrder ==
  (last_step.kind # "none" /\ last_step.time_elapsed > config.retry_window_seconds) =>
    /\ last_step.kind \in {"expired", "exhausted"}
    /\ last_step.retry_before <= requests[last_step.order].max_retries
         => last_step.kind = "expired"
    /\ retry_attempts = last_step.log_before
    /\ venue[last_step.order].sent = last_step.sent_before
    /\ venue[last_step.order].failed_appends = last_step.appends_before + 1
    /\ last_step.next = "get"

C6_Witness ==
  /\ last_step.kind = "expired"
  /\ last_step.time_elapsed > config.retry_window_seconds
  /\ last_step.retry_before = 1
  /\ requests[last_step.order].max_retries >= 1
  /\ venue[last_step.order].failed_appends = 1

\* C7 as stated: an order entering retry at attempt N waits at least
\* min(base_delay * 2^(N-1), max_delay), and never more than max_delay.
C7_WaitAtLeastBackoff ==
  last_wait.made =>
    /\ last_wait.waited >=
         Min({config.base_delay_seconds * Pow2(last_wait.n - 1), config.max_delay_seconds})
    /\ last_wait.waited <= config.max_delay_seconds

\* C7 (amended): with exponential_backoff on, the wait before attempt N + 1 is
\* min(base_delay * 2^N, max_delay), hence at least
\* min(base_delay * 2^(N-1), max_delay) and at most max_delay; with
\* exponential_backoff off the wait is base_delay whatever N and max_delay.
C7_WaitPerBackoffSetting ==
  last_wait.made =>
    IF config.exponential_backoff
      THEN /\ last_wait.waited =
                Min({config.base_delay_seconds * Pow2(last_wait.n), config.max_delay_seconds})
           /\ last_wait.waited >=
                Min({config.base_delay_seconds * Pow2(last_wait.n - 1),
                     config.max_delay_seconds})
           /\ last_wait.waited <= config.max_delay_seconds
      ELSE last_wait.waited = config.base_delay_seconds

C7_Witness ==
  /\ last_wait.made
  /\ config.exponential_backoff
  /\ last_wait.n = 2
  /\ last_wait.waited = config.max_delay_seconds
  /\ config.base_delay_seconds * Pow2(last_wait.n) > config.max_delay_seconds

OtherString(x, a, b) == IF x = a THEN b ELSE a

\* The orders that differ from o in exactly one field other than checksum.
SingleFieldChanges(o) ==
  { [o EXCEPT !.signal_id = OtherString(@, "s1", "s2")],
    [o EXCEPT !.symbol = OtherString(@, "EURUSD", "GBPUSD")],
    [o EXCEPT !.action = OtherString(@, "buy", "sell")],
    [o EXCEPT !.entry = @ + 1],
    [o EXCEPT !.sl = @ - 1],
    [o EXCEPT !.tp = Append(@, 10900)],
    [o EXCEPT !.tp = Tail(@)],
    [o EXCEPT !.tp = [i \in DOMAIN @ |-> IF i = 1 THEN @[i] + 1 ELSE @[i]]],
    [o EXCEPT !.lot = @ + 1],
    [o EXCEPT !.order_type = OtherString(@, "market", "pending")],
    [o EXCEPT !.delay_ms = @ + 1],
    [o EXCEPT !.move_sl_to_be = ~@],
    [o EXCEPT !.partial_close = 50],
    [o EXCEPT !.comment = ""],
    [o EXCEPT !.timestamp = @ + 1],
    [o EXCEPT !.user_id = OtherString(@, "1", "2")] }

C12_AtMostThreeWrites ==
  last_write.made =>
    /\ last_write.attempt \in 1..3
    /\ last_write.accepted =>
         /\ last_write.result = "success"
         /\ tasks[last_write.task].pc = "idle"
         /\ Len(trade_executions) = last_write.log_before + 1
         /\ trade_executions[Len(trade_executions)].status = "dispatched"
    /\ (~last_write.accepted /\ last_write.attempt < 3) =>
         /\ last_write.result = "none"
         /\ tasks[last_write.task].pc = "sleeping"
         /\ tasks[last_write.task].attempt = last_write.attempt
         /\ Len(trade_executions) = last_write.log_before
    /\ (~last_write.accepted /\ last_write.attempt = 3) =>
         /\ last_write.result = "failure"
         /\ tasks[last_write.task].pc = "idle"
         /\ Len(trade_executions) = last_write.log_before

C12_Witness ==
  /\ last_write.made
  /\ ~last_write.accepted
  /\ last_write.attempt = 3
  /\ last_write.result = "failure"
  /\ last_dispatch = Returned(last_write.order.user_id, FALSE, "auto",
                              "Failed to write signal file")
  /\ trade_executions = <<>>


\* C13: a dispatch that ended, in success or because the order file could not
\* be written after all attempts, left an entry for its order in the audit
\* log (trade_executions).
C13_EveryOutcomeLogged ==
  (last_write.made /\ last_write.result \in {"success", "failure"}) =>
    \E i \in (last_write.log_before + 1)..Len(trade_executions) :
      /\ trade_executions[i].user_id = last_write.order.user_id
      /\ trade_executions[i].signal_id = last_write.order.signal_id


RiskChecksFailing(confidence, pair, count, cfg) ==
  {i \in 1..3 :
     \/ i = 1 /\ ~(confidence >= cfg.min_confidence)
     \/ i = 2 /\ cfg.allowed_pairs # {} /\ pair \notin cfg.allowed_pairs
     \/ i = 3 /\ ~(count < cfg.max_daily_trades)}

RiskCheckNames == <<"confidence", "pair", "daily_limit">>

RiskRejected ==
  last_dispatch.made /\ last_dispatch.error = "Signal rejected by risk management"

\* C15: an auto dispatch that is rejected by risk management fails on the
\* first failing check of confidence, allow-list, daily cap (in this order),
\* returns failure and leaves the order files and the audit log as they were;
\* an auto dispatch that goes on to write an order file passed all three.
C15_RiskChecksInOrder ==
  /\ RiskRejected =>
       LET failing == RiskChecksFailing(last_dispatch.signal.confidence,
                                        last_dispatch.signal.pair,
                                        last_dispatch.count_before,
                                        user_configs[last_dispatch.user])
       IN  /\ failing # {}
           /\ last_dispatch.reason = RiskCheckNames[Min(failing)]
           /\ ~last_dispatch.success
           /\ ~last_dispatch.wrote
  /\ last_write.made =>
       RiskChecksFailing(signals[last_write.order.signal_id].confidence,
                         last_write.order.symbol, last_write.count,
                         user_configs[last_write.order.user_id]) = {}

C15_Witness ==
  /\ RiskRejected
  /\ last_dispatch.reason = "pair"
  /\ last_dispatch.count_before >= user_configs[last_dispatch.user].max_daily_trades
  /\ Len(trade_executions) = 1

\* The payload _create_signal_payload builds from the intent: unmodified,
\* execution allowed, no strategy actions.
Unmodified(r) ==
  /\ r.payload = _create_signal_payload(intents[r.intent]).payload
  /\ r.payload.execution_allowed
  /\ ~r.payload.modified_by_strategy
  /\ r.payload.strategy_actions = <<>>

\* C16: a fault during rule evaluation never loses the intent: every call of
\* execute_strategy, for every intent and every rule graph, returns a payload
\* to its caller, and when a fault occurred the returned payload is the
\* unmodified intent, execution allowed, not modified, no strategy actions.
C16_FaultNeverLosesIntent ==
  \A k \in DOMAIN results :
    /\ ~results[k].raised
    /\ results[k].fault => Unmodified(results[k])

\* C17: a condition naming a field the payload does not have is a fault: the
\* evaluation returns the unmodified, execution-allowed payload and no action
\* downstream of the condition is applied.
C17_UnknownFieldIsFault ==
  \A k \in DOMAIN results :
    (results[k].graph = "unknown_field" /\ ~results[k].raised) => Unmodified(results[k])

\* C18: execute_strategy never changes the intent it is given, and the payloads
\* returned by two evaluations are independent objects: whatever a later
\* evaluation does, the object returned by an earlier one still holds what was
\* returned.
C18_IndependentPayloads ==
  /\ intents = StrategyIntents
  /\ \A k \in DOMAIN results :
       ~results[k].raised =>
         /\ results[k].ref \in DOMAIN objects
         /\ objects[results[k].ref] = results[k].payload
         /\ \A j \in DOMAIN results :
              (j # k /\ ~results[j].raised) => results[j].ref # results[k].ref

\* Two evaluations of the same intent against different graphs, the second
\* having modified its payload, the first one's payload still as returned.
C18_Witness ==
  /\ Len(results) = 2
  /\ results[1].intent = results[2].intent
  /\ results[1].graph = "empty"
  /\ results[2].graph = "low_confidence"
  /\ ~results[1].raised /\ ~results[2].raised
  /\ results[2].payload.modified_by_strategy
  /\ ~objects[results[1].ref].modified_by_strategy
  /\ objects[results[2].ref].modified_by_strategy

\* C19: in the graph signal_received -> (confidence < 0.70) -> skip_trade the
\* successor of the condition runs only when the comparison is true: the
\* returned payload has execution_allowed false and modified_by_strategy true
\* exactly when the intent's confidence is below 0.70, and otherwise it is the
\* unmodified payload with execution allowed.
C19_ConditionGatesSuccessors ==
  \A k \in DOMAIN results :
    (results[k].graph = "low_confidence" /\ ~results[k].raised) =>
      IF intents[results[k].intent].confidence < 70
        THEN /\ ~results[k].payload.execution_allowed
             /\ results[k].payload.modified_by_strategy
             /\ results[k].payload.strategy_actions = <<"trade_skipped">>
        ELSE Unmodified(results[k])

\* Confidence 0.65 blocked and confidence 0.90 let through by the same graph.
C19_Witness ==
  /\ Len(results) = 2
  /\ results[1].graph = "low_confidence" /\ results[2].graph = "low_confidence"
  /\ intents[results[1].intent].confidence = 65
  /\ intents[results[2].intent].confidence = 90
  /\ ~results[1].payload.execution_allowed /\ results[1].payload.modified_by_strategy
  /\ results[2].payload.execution_allowed /\ ~results[2].payload.modified_by_strategy

GoldText == "GOLD BUY @1985, SL 1975, TP 1995 2005"

\* C20: a text naming its instrument by a synonym is returned with the
\* canonical symbol: parsing "GOLD BUY @1985, SL 1975, TP 1995 2005" yields
\* symbol XAUUSD, side buy, entry 1985, stop 1975, targets [1995, 2005] and a
\* confidence of at least 0.85.
C20_GoldIsXAUUSD ==
  (last_parse.called /\ last_parse.raw = GoldText /\ last_parse.ret.ok) =>
    /\ last_parse.ret.pair = "XAUUSD"
    /\ last_parse.ret.action = "buy"
    /\ last_parse.ret.entry = 19850000
    /\ last_parse.ret.sl = 19750000
    /\ last_parse.ret.tp = <<19950000, 20050000>>
    /\ last_parse.ret.confidence >= 85

StrictlyAscending(list) == \A i \in 1..Len(list) - 1 : list[i] < list[i + 1]

TargetText == "SELL EURUSD @1.0850 SL 1.0900 TARGET 1.0800 1.0750 1.0800"

\* C21: the take-profit list of every returned intent is strictly ascending
\* (sorted, no two equal levels), whatever the order and the multiplicity of
\* the values matched in the text.
C21_TakeProfitsStrictlyAscending ==
  (last_parse.called /\ last_parse.ret.ok) => StrictlyAscending(last_parse.ret.tp)

\* An intent returned for a text whose matched values come in descending
\* order, one of them three times.
C21_Witness ==
  /\ last_parse.called /\ last_parse.ret.ok
  /\ last_parse.raw = TargetText
  /\ \E s \in TextSamples :
       /\ s.raw = TargetText
       /\ TakeProfitMatches(s.toks) = <<10800, 10750, 10800, 10800>>
  /\ last_parse.ret.tp = <<10750, 10800>>

\* C22: for every sequence of recorded outcomes of a channel, outcomes with
\* negative pips included, calculate_provider_score returns a score within
\* 0..100, equal to winRate*60 + min(avgPips/10, 40).
C22_ScoreWithinRange ==
  last_score.made =>
    /\ last_score.ret.score >= 0
    /\ last_score.ret.score <= 10000
    /\ last_score.ret = calculate_provider_score(last_score.data)

\* C23: shutdown always completes: from any state of the executor (worker
\* idle, worker in a backoff sleep, orders still queued) a call of shutdown
\* eventually returns.
C23_ShutdownCompletes == (shutdown = "stopping") ~> (shutdown = "returned")

\* C24: duplicate suppression holds under concurrent producers: of the
\* parse_signal calls for the same text, channel and hour bucket that are in
\* flight at once on one parser, at most one returns an intent.
C24_OneIntentAmongConcurrentCalls ==
  \A i, j \in DOMAIN parse_log :
    (i < j /\ parse_log[i].key = parse_log[j].key /\ parse_log[i].ok) => ~parse_log[j].ok

\* Three calls for the same text and channel in flight at once: the first
\* one run returns the intent, the other two return None.
C24_Witness ==
  /\ Len(parse_log) = 3
  /\ parse_log[1].key = parse_log[2].key /\ parse_log[2].key = parse_log[3].key
  /\ parse_log[1].in_flight = 2
  /\ parse_log[1].ok /\ ~parse_log[2].ok /\ ~parse_log[3].ok

\* C25: a working payload belongs to exactly one evaluation: when two
\* execute_strategy calls on the same engine overlap, no action of one
\* evaluation changes the payload of the other, and each call returns the
\* payload built from its own intent: what the call returns is what it
\* returns when it runs alone.
C25_PayloadOwnedByOneEvaluation ==
  \A k \in DOMAIN results :
    ~results[k].raised => results[k].payload = EvaluateAlone(results[k].intent, results[k].graph)

\* The last pass found the venue disconnected and went through _reconnect_mt5.
Disconnected == last_step.kind = "invalid" /\ last_step.reason = "mt5_disconnection"

ReconnectBounded ==
  Disconnected =>
    /\ last_step.reconnect.attempts <= config.reconnection_attempts
    /\ StrictlyAscending(last_step.reconnect.waits)

\* C26 as stated: when validation finds the venue disconnected, at most
\* reconnection_attempts reconnection attempts are made, the wait grows from
\* one attempt to the next, and if all of them fail the order is declared
\* Terminal-Failed: it is not put into retry.
C26_FailedReconnectIsTerminal ==
  /\ ReconnectBounded
  /\ (Disconnected /\ ~last_step.reconnect.ok) =>
       /\ last_step.next # "sleep"
       /\ ~WithinBudget(requests[last_step.order].retry_count,
                        requests[last_step.order].max_retries)

\* C26 amended: at most reconnection_attempts attempts with growing waits; if
\* all of them fail the retry counter of the order goes up by one and the
\* order is put into retry while the counter is within max_retries; only
\* otherwise does it leave the loop for failed_trades.
C26_FailedReconnectCountsAsRetry ==
  /\ ReconnectBounded
  /\ (Disconnected /\ ~last_step.reconnect.ok) =>
       /\ last_step.reconnect.attempts = config.reconnection_attempts
       /\ requests[last_step.order].retry_count = last_step.retry_before + 1
       /\ IF WithinBudget(requests[last_step.order].retry_count,
                          requests[last_step.order].max_retries)
            THEN last_step.next = "sleep"
            ELSE last_step.next = "loop"

\* Three reconnection attempts failed, with waits of 5, 10 and 15 seconds,
\* and the order was put into retry.
C26_Witness ==
  /\ Disconnected /\ ~last_step.reconnect.ok
  /\ last_step.reconnect.attempts = 3
  /\ last_step.reconnect.waits = <<5, 10, 15>>
  /\ last_step.next = "sleep"

\* The rule ids reachable from the ids of S along the connections of g.
RECURSIVE ReachableFrom(_, _)
ReachableFrom(g, S) ==
  LET next == S \cup {g.connections[k][2] :
                        k \in {j \in DOMAIN g.connections : g.connections[j][1] \in S}}
  IN  IF next = S THEN S ELSE ReachableFrom(g, next)

HasCycle(g) ==
  \E k \in DOMAIN g.connections :
    g.connections[k][1] \in ReachableFrom(g, {g.connections[k][2]})

\* C27: rule-graph evaluation terminates on every rule graph: a graph whose
\* connections contain a cycle is detected and rejected when it is loaded,
\* before any node is executed, instead of being walked.
C27_CycleRejectedAtLoad ==
  \A k \in DOMAIN results :
    (HasCycle(StrategyGraphs[results[k].graph]) /\ ~results[k].raised) =>
      results[k].executed = 0

\* The first validation of order o has started; o has reached Success or
\* Terminal-Failed.
Started(o) == venue[o].passes > 0

Finished(o) == venue[o].done > 0 \/ venue[o].failed_appends > 0

Successors(g, rule_id) ==
  {g.connections[k][2] : k \in {j \in DOMAIN g.connections : g.connections[j][1] = rule_id}}

InHistory(h, rule_id) == \E k \in DOMAIN h : h[k].rule_id = rule_id

ActionsArrivedAt(g, h) ==
  {rid \in {g.rules[k].id : k \in DOMAIN g.rules} :
     /\ RuleById(g, rid).type = "action"
     /\ \/ InHistory(h, rid)
        \/ \E k \in DOMAIN h : h[k].result /\ rid \in Successors(g, h[k].rule_id)}

\* float() can read the numeric parameter the action uses.
ParametersReadable(rule) ==
  /\ rule.action \in {"reduce_lot", "increase_lot"} => rule.multiplier # NoneNum
  /\ rule.action = "set_tp" => rule.value # NoneNum

\* An action node the walk arrived at is recorded, the returned payload is
\* marked as modified, and every successor of the node is recorded too.
MarksAndContinues(r, g, h, rid) ==
  /\ InHistory(h, rid)
  /\ r.payload.modified_by_strategy
  /\ \A n \in Successors(g, rid) : HasRule(g, n) => InHistory(h, n)

\* C29 (as stated): every action node that is executed, whatever its action
\* name and parameters, sets modified_by_strategy to true and then lets the
\* walk continue to all of its successors (on the graphs without a cycle).
C29_EveryActionMarksAndContinues ==
  \A k \in DOMAIN results :
    LET r == results[k]
        g == StrategyGraphs[r.graph]
        st == Walked(r.intent, r.graph)
    IN  (~r.raised /\ ~HasCycle(g)) =>
          \A rid \in ActionsArrivedAt(g, st.history) : MarksAndContinues(r, g, st.history, rid)

\* C29 (amended): in an evaluation that ends without a fault, every action
\* node the walk arrives at, whatever its action name (an unrecognised one
\* included) and whatever its readable parameters (a set_tp with a
\* non-positive value included), sets modified_by_strategy to true and lets
\* the walk continue to all of its successors; an action whose multiplier or
\* value is not a number raises instead, the evaluation is a fault and
\* returns the payload as built from the intent, unmodified.
C29_ReadableActionMarksAndContinues ==
  \A k \in DOMAIN results :
    LET r == results[k]
        g == StrategyGraphs[r.graph]
        st == Walked(r.intent, r.graph)
        made == _create_signal_payload(intents[r.intent])
        arrived == ActionsArrivedAt(g, st.history)
    IN  ~r.raised =>
          /\ r.fault = st.fault
          /\ r.executed = Len(st.history)
          /\ ~r.fault =>
               \A rid \in arrived :
                 /\ ParametersReadable(RuleById(g, rid))
                 /\ MarksAndContinues(r, g, st.history, rid)
          /\ (\E rid \in arrived : ~ParametersReadable(RuleById(g, rid))) => r.fault
          /\ r.fault => (r.payload = made.payload /\ ~r.payload.modified_by_strategy)
          /\ \A j \in DOMAIN g.rules :
               (g.rules[j].type = "action" /\ ParametersReadable(g.rules[j])) =>
                 /\ ~_execute_action(made.payload, g.rules[j]).fault
                 /\ _execute_action(made.payload, g.rules[j]).payload.modified_by_strategy

\* An evaluation of the graph whose actions are an unrecognised one with two
\* successors and two set_tp with values 0 and -5: all five rules recorded,
\* the payload marked as modified, its target untouched.
C29_Witness ==
  \E k \in DOMAIN results :
    /\ results[k].graph = "odd_actions" /\ results[k].intent = "i1"
    /\ ~results[k].raised /\ ~results[k].fault
    /\ results[k].executed = 5
    /\ results[k].payload.modified_by_strategy
    /\ results[k].payload.strategy_actions = <<"alert_sent">>
    /\ results[k].payload.tp = 11100

\* The event of a trigger matches the intent: signal_received always, one of
\* the follow-up events when the intent carries the flag of that name (the
\* intents here carry tp1_hit at most), any other event never.
EventMatches(event, intent) ==
  \/ event = "signal_received"
  \/ event = "tp1_hit" /\ intent.tp1_hit

FiringTriggers(g, intent) ==
  {g.rules[k].id : k \in {j \in DOMAIN g.rules :
                            g.rules[j].type = "trigger" /\ EventMatches(g.rules[j].event, intent)}}

\* C30: evaluation starts only at trigger nodes whose event matches: a
\* signal_received trigger always fires, a tp1_hit trigger fires only when
\* the intent carries that flag, a trigger with an unknown event never
\* fires; a node reachable only from non-firing triggers is never executed
\* and does not change the payload.
C30_OnlyMatchingTriggersFire ==
  \A k \in DOMAIN results :
    LET r == results[k]
        g == StrategyGraphs[r.graph]
        intent == intents[r.intent]
        st == Walked(r.intent, r.graph)
        made == _create_signal_payload(intent)
        firing == FiringTriggers(g, intent)
    IN  (~r.raised /\ ~FindTriggersFaults(g)) =>
          /\ r.executed = Len(st.history)
          /\ \A j \in DOMAIN st.history : st.history[j].rule_id \in ReachableFrom(g, firing)
          /\ ~r.fault => \A t \in firing : InHistory(st.history, t)
          /\ firing = {} => (r.executed = 0 /\ r.payload = made.payload)
          /\ r.graph = "on_events" =>
               /\ r.payload.execution_allowed
               /\ r.payload.strategy_actions =
                    IF intent.tp1_hit THEN <<"alert_sent", "sl_moved_to_entry">>
                    ELSE <<"alert_sent">>
               /\ r.payload.sl = IF intent.tp1_hit THEN made.payload.entry ELSE made.payload.sl

\* The graph with a signal_received, a tp1_hit and an unknown-event trigger
\* evaluated for an intent that carries tp1_hit (two chains walked) and for
\* one that does not (one chain walked).
C30_Witness ==
  /\ \E k \in DOMAIN results :
       /\ results[k].graph = "on_events" /\ results[k].intent = "i2"
       /\ results[k].executed = 4
       /\ results[k].payload.sl = 11000
  /\ \E k \in DOMAIN results :
       /\ results[k].graph = "on_events" /\ results[k].intent = "i1"
       /\ results[k].executed = 2
       /\ results[k].payload.sl = 10950

\* Twice the weighted sum of the components found, in hundredths.
TwiceWeightedSum(c) ==
  2 * ( (IF c.pair # "None" THEN 30 ELSE 0)
      + (IF c.action # "None" THEN 20 ELSE 0)
      + (IF c.entry # NoneNum /\ c.entry # 0 THEN 20 ELSE 0)
      + (IF c.sl # NoneNum /\ c.sl # 0 THEN 15 ELSE 0)
      + (IF Len(c.tp) >= 1 THEN 10 ELSE 0)
      + (IF c.words >= 5 THEN 5 ELSE 0) )

\* C31: the confidence is the sum of 0.30 (symbol), 0.20 (side), 0.20
\* (entry), 0.15 (stop), 0.10 (at least one target) and 0.05 (at least 5
\* words), halved when the symbol or the side is missing, and never above
\* 1.0.  The confidence is kept in whole hundredths, a halved odd sum cut to
\* the hundredth below.
C31_ConfidenceIsWeightedSum ==
  last_confidence.made =>
    LET c == last_confidence
        halved == c.pair = "None" \/ c.action = "None"
        twice == IF halved THEN TwiceWeightedSum(c) \div 2 ELSE TwiceWeightedSum(c)
    IN  /\ c.confidence = twice \div 2
        /\ c.confidence <= 100
        /\ c.confidence >= 0

\* A text with side, entry, stop, a target and 5 words but no symbol: half of
\* 0.70.
C31_Witness ==
  /\ last_confidence.made
  /\ last_confidence.pair = "None" /\ last_confidence.action = "buy"
  /\ last_confidence.entry = 10850 /\ last_confidence.sl = 10850
  /\ last_confidence.tp = <<10900>> /\ last_confidence.words = 5
  /\ last_confidence.confidence = 35

\* The stop-loss and the targets of a signal shifted by a user's pip offsets:
\* buy shifts the stop down and the targets up, sell the mirror.
ShiftedStop(sig, cfg) ==
  IF sig.action = "buy" THEN sig.sl - cfg.sl_adjustment ELSE sig.sl + cfg.sl_adjustment

ShiftedTargets(sig, cfg) ==
  [i \in 1..Len(sig.tp) |->
     IF sig.action = "buy" THEN sig.tp[i] + cfg.tp_adjustment
                           ELSE sig.tp[i] - cfg.tp_adjustment]

\* C32: dispatch_signal does not change the signal it is given: when the same
\* signal is dispatched to two users one after the other, each user's order
\* carries the original stop-loss and take-profit levels shifted by that
\* user's own pip offsets only, and that user's own computed lot.
C32_DispatchLeavesSignalUnchanged ==
  /\ \A sid \in SignalIds : signals[sid] = InitialSignals[sid]
  /\ \A u \in Users :
       (signal_files[u].present /\ signal_files[u].readable) =>
         LET order == signal_files[u].data
             original == InitialSignals[order.signal_id]
         IN  /\ order.sl = ShiftedStop(original, user_configs[u])
             /\ order.tp = ShiftedTargets(original, user_configs[u])
             /\ order.lot = _calculate_position_size(user_configs[u])

\* C33: with several active strategies a signal is executed only if none of
\* them vetoed it: if the evaluation of any active strategy returns
\* execution_allowed = false, process_telegram_signal does not call
\* execute_trade, whatever the position of that strategy in the list.
C33_AnyVetoBlocksExecution ==
  (last_signal.count > 0 /\ ~last_signal.raised) =>
    ((\E k \in DOMAIN last_signal.allowed : ~last_signal.allowed[k]) => ~last_signal.executed)

\* A skip_trade action is recorded in history h of a walk of graph g.
SkipTradeExecuted(g, h) ==
  \E k \in DOMAIN h :
    /\ h[k].rule_type = "action"
    /\ RuleById(g, h[k].rule_id).action = "skip_trade"

Vetoed(payload) ==
  /\ ~payload.execution_allowed
  /\ payload.modified_by_strategy
  /\ \E k \in DOMAIN payload.strategy_actions : payload.strategy_actions[k] = "trade_skipped"

\* C34 (as stated): if a skip_trade action was executed during an evaluation,
\* the payload returned by that evaluation has execution_allowed = false,
\* modified_by_strategy = true and 'trade_skipped' among its strategy
\* actions, whatever nodes are executed afterwards.
C34_VetoNeverUndone ==
  \A k \in DOMAIN results :
    LET r == results[k]
        st == Walked(r.intent, r.graph)
    IN  (~r.raised /\ SkipTradeExecuted(StrategyGraphs[r.graph], st.history)) =>
          Vetoed(r.payload)

\* C34 (amended): if a skip_trade action was executed during an evaluation
\* that ends without a fault, the payload returned is vetoed, whatever nodes
\* are executed afterwards; when a node executed afterwards raises, the
\* evaluation returns the payload as built from the intent, with
\* execution_allowed = true.
C34_VetoKeptUnlessFault ==
  \A k \in DOMAIN results :
    LET r == results[k]
        st == Walked(r.intent, r.graph)
        made == _create_signal_payload(intents[r.intent])
    IN  (~r.raised /\ SkipTradeExecuted(StrategyGraphs[r.graph], st.history)) =>
          /\ r.fault = st.fault
          /\ ~r.fault => Vetoed(r.payload)
          /\ r.fault => (r.payload = made.payload /\ r.payload.execution_allowed)

\* skip_trade executed first and three more action executions after it: the
\* payload returned is vetoed and its lot halved twice.
C34_Witness ==
  \E k \in DOMAIN results :
    /\ results[k].graph = "diamond" /\ results[k].intent = "i1"
    /\ ~results[k].fault
    /\ results[k].executed = 5
    /\ results[k].payload.strategy_actions[1] = "trade_skipped"
    /\ Len(results[k].payload.strategy_actions) = 4
    /\ ~results[k].payload.execution_allowed

\* C35: within one evaluation each node of the rule graph is executed at most
\* once, so an action's mutation is applied at most once and the node is
\* recorded once in the execution history, even when the node is reachable
\* from the firing triggers along more than one path (stated for the graphs
\* without a cycle).
C35_EachNodeAtMostOnce ==
  \A k \in DOMAIN results :
    LET r == results[k]
        g == StrategyGraphs[r.graph]
        st == Walked(r.intent, r.graph)
    IN  (~r.raised /\ ~HasCycle(g)) =>
          /\ \A a, b \in DOMAIN st.history :
               st.history[a].rule_id = st.history[b].rule_id => a = b
          /\ r.executed <= Len(g.rules)
          /\ r.graph = "diamond" => r.payload.lot_size = (100 * 5) \div 10

\* C36: no order is silently dropped by the worker: every order the worker
\* has taken from the queue and no longer holds has ended executed
\* successfully or appended to failed_trades, and has been marked done on the
\* queue, also when a venue call inside its processing raised an exception.
C36_NoOrderSilentlyDropped ==
  /\ \A o \in DOMAIN requests :
       (~InQueue(o) /\ worker.cur # o) => (venue[o].done > 0 \/ InFailedTrades(o))
  /\ worker.pc = "get" => unfinished_tasks = Len(trade_queue)

\* C37: after start_processing returns a worker is draining the queue: for
\* any interleaving of stop_processing and start_processing calls with a
\* worker that is busy with an order, once the last call was
\* start_processing, an order accepted by add_trade and waiting in the queue
\* has a worker thread that is alive to take it.
C37_WorkerDrainsAfterStart ==
  (last_call = "start" /\ trade_queue # <<>>) => IsAlive(worker)

\* C38: every intent returned by parse_signal has a symbol, a side and an
\* entry price: a text in which any one of the three is missing scores below
\* the 0.85 floor whatever else it contains, so an intent without entry price
\* is never delivered.
C38_DeliveredHasSymbolSideEntry ==
  (last_confidence.made /\ last_confidence.delivered) =>
     /\ last_confidence.pair # "None"
     /\ last_confidence.action # "None"
     /\ last_confidence.entry # NoneNum
     /\ last_confidence.entry # 0

\* Symbol, side, entry, a target and 5 words but no stop: 0.85, delivered;
\* the score of the same text is what the floor lets through.
C38_Witness ==
  /\ last_confidence.made /\ last_confidence.delivered
  /\ last_confidence.pair # "None" /\ last_confidence.action # "None"
  /\ last_confidence.entry = 10850 /\ last_confidence.sl = NoneNum
  /\ last_confidence.tp # <<>> /\ last_confidence.words >= 5
  /\ last_confidence.confidence = 85

\* C39: once start_monitoring is running, every signal put on the
\* SignalQueue by add_signal is eventually taken from the queue and passed
\* to parse_signal, including signals added after the queue was found empty.
C39_EverySignalEventuallyParsed ==
  \A n \in 1..MaxQueuedSignals : (added >= n) ~> (taken >= n)

====
